---- MODULE Spec2Model ----
(***************************************************************************)
(* Cross-source aggregation and routing engine of LunaTV_emby:             *)
(*   - EmbyManager (source registry, handle cache)      lib/emby-manager   *)
(*   - GET /api/search (fan-out orchestrator, filter)   api/search/route   *)
(*   - getEmbyDetail (detail router)           lib/special-sources-detail  *)
(*   - POST /api/emby/import (configuration import)                        *)
(* Strings that the code inspects character by character (source tags,     *)
(* instance keys, type names) are sequences of one-character strings.      *)
(***************************************************************************)
EXTENDS Integers, Sequences, FiniteSets, TLC

VARIABLES
  config,       \* the cached AdminConfig: [EmbyConfig]
  clients,      \* EmbyManager.clients : key -> the source config the client was built from
  pc,           \* position of the /api/search request: "idle" | "running" | "done"
  embySources,  \* the request's snapshot Array.from(embySourcesMap.values())
  embyTask,     \* one promise per element of embySources
  apiSites,     \* the request's getAvailableApiSites(username)
  apiTask,      \* one promise per element of apiSites
  filterOff,    \* config.SiteConfig.DisableYellowFilter as the request found it
  calls,        \* backend calls started by the request
  response,     \* the NextResponse of the request
  query,        \* searchParams.get('q') of the request
  ret,          \* outcome of the registry / detail call that has just returned
  imports,      \* configuration imports so far
  constructed,  \* key -> number of EmbyClient objects built since the cache was last cleared
  clears,       \* consecutive calls of clearCache (2 stands for two or more)
  req,          \* the playback / CMS proxy / detail request: [kind, pc, arg, key, fetches, status, response]
  cache,        \* EMBY_CACHE : cache key -> [data, expiresAt]
  now,          \* Date.now()
  cacheRet,     \* what the cache call that ran last returned: [op, key, value, size, keys, expired]
  written,      \* cache key -> the last set on it: [data, at, live, all]; live until the next clear
  viewsReq,     \* the GET /api/emby/views requests: [pc, key]
  late,         \* API task -> [value, pc]: what searchFromApi resolved to after the task's timer had fired, and where the request was
  fileIndex,    \* [openlist, xiaoya]: the file-index backend is configured (and knows the folder)
  listing,      \* the directory listing loop of getOpenListDetail: [pc, page, files]
  xiaoyaReq,    \* the getXiaoyaDetail call that ran last: [pc, decoded, outcome, calls]
  callers,      \* the concurrent getClient / getAllClients calls: [pc, op, arg, sources, outcome, got]
  videoInfo,    \* the per-folder cache of parse results: file -> [episode, isOVA], or no entry
  library,      \* the private-library page: [videos, loading, loadingMore, hasMore, error, page, requests]
  item,         \* the item the Emby backend holds under the requested id, with its episodes
  detail        \* what the detail entry point that ran last handed to its caller

vars == <<config, clients, pc, embySources, embyTask, apiSites, apiTask,
          filterOff, calls, response, query, ret, imports, constructed, clears, req,
          cache, now, cacheRet, written, viewsReq, callers, late,
          fileIndex, listing, xiaoyaReq, videoInfo, library, item, detail>>

detailVars == <<item, detail>>

cacheVars == <<cache, now, cacheRet, written, viewsReq>>

listVars == <<fileIndex, listing, xiaoyaReq>>

viewVars == <<videoInfo, library>>

auxVars == <<cacheVars, callers, late, listVars, viewVars>>

searchVars ==
  <<pc, embySources, embyTask, apiSites, apiTask, filterOff, calls, response, query>>

----------------------------------------------------------------------------
(* Bounds of the model *)

\* configured Emby instances
MaxSources == 2
\* generic API sites the caller is authorised to use
MaxSites == 1
\* results a generic API site returns for one query
MaxItems == 2
\* items an Emby server returns for one query
MaxEmbyItems == 1
\* configuration imports in one behaviour
MaxImports == 1
\* instances in the Sources array of one imported file
MaxImportLen == 1

\* episodes the Emby backend holds for one series
MaxEpisodes == 2
\* largest season / episode number of an episode
MaxIndex == 2

\* the clock runs from 0 to MaxTime, in units of six hours
MaxTime == 5
\* the values a caller can put in the cache
MaxData == 2
\* concurrent requests of the views endpoint
MaxRequests == 2

\* files a file-index folder holds
MaxFiles == 2
\* listing pages the model tells apart: every later page counts as page MaxPages
MaxPages == 2
\* the private-library page: pages of a list, requests
MaxLibraryPage == 2
MaxLibraryRequests == 3

\* the credentials an instance can be configured with
Creds == {"cred1", "cred2"}

KeyNames == <<"a", "b", "c", "d">>
SiteNames == <<"s", "t", "u">>

Key(i) == <<KeyNames[i]>>
Keys == {Key(i) : i \in 1..MaxSources}

----------------------------------------------------------------------------
(* Strings *)

STR_emby == <<"e", "m", "b", "y">>
STR_emby_ == <<"e", "m", "b", "y", "_">>
STR_default == <<"d", "e", "f", "a", "u", "l", "t">>
\* the strings written '电影' (film) and '电视剧' (TV series) in the source
STR_movie == <<"d", "y">>
STR_series == <<"d", "s", "j">>
\* absent / undefined / empty key
NoKey == <<>>

STR_colon == <<":">>

\* String.prototype.startsWith
StartsWith(s, p) == Len(s) >= Len(p) /\ SubSeq(s, 1, Len(p)) = p

\* String.prototype.substring(n)
Substring(s, n) == SubSeq(s, n + 1, Len(s))

\* String.prototype.includes
Includes(s, w) == \E i \in 0..(Len(s) - Len(w)) : SubSeq(s, i + 1, i + Len(w)) = w

\* Array.prototype.flat over a sequence of sequences
RECURSIVE Flat(_)
Flat(ss) == IF ss = <<>> THEN <<>> ELSE Head(ss) \o Flat(Tail(ss))

----------------------------------------------------------------------------
(* Configuration *)

\* EmbySourceConfig: the fields the engine reads
SourceConfigs == [key : Keys, enabled : BOOLEAN, isDefault : BOOLEAN, cred : Creds]

\* EmbyConfig undefined / empty
NoEmbyConfig ==
  [hasSources |-> FALSE, Sources |-> <<>>, ServerURL |-> FALSE, Enabled |-> "absent", cred |-> "cred1"]

\* a conversion of the legacy shape that takes an absent Enabled flag for true
getSourcesLegacyOn(cfg) ==
  IF cfg.EmbyConfig.hasSources
    THEN cfg.EmbyConfig.Sources
    ELSE IF cfg.EmbyConfig.ServerURL
      THEN <<[key |-> STR_default,
              enabled |-> (cfg.EmbyConfig.Enabled # "false"),
              isDefault |-> TRUE,
              cred |-> cfg.EmbyConfig.cred]>>
      ELSE <<>>

\* EmbyManager.getSources
getSources(cfg) ==
  IF cfg.EmbyConfig.hasSources
    THEN cfg.EmbyConfig.Sources
    ELSE IF cfg.EmbyConfig.ServerURL
      THEN <<[key |-> STR_default,
              enabled |-> (cfg.EmbyConfig.Enabled = "true"),
              isDefault |-> TRUE,
              cred |-> cfg.EmbyConfig.cred]>>
      ELSE <<>>

\* migrateEmbyConfig
migrateEmbyConfig(cfg) ==
  IF cfg.EmbyConfig.hasSources THEN cfg
  ELSE IF cfg.EmbyConfig.ServerURL
    THEN [cfg EXCEPT !.EmbyConfig =
            [hasSources |-> TRUE,
             Sources |-> <<[key |-> STR_default,
                            enabled |-> (cfg.EmbyConfig.Enabled = "true"),
                            isDefault |-> TRUE,
                            cred |-> cfg.EmbyConfig.cred]>>,
             ServerURL |-> FALSE, Enabled |-> "absent", cred |-> "cred1"]]
    ELSE cfg

\* a filter that lets every instance through
getEnabledSourcesUnfiltered(cfg) == getSources(cfg)

\* EmbyManager.getEnabledSources
getEnabledSources(cfg) == SelectSeq(getSources(cfg), LAMBDA s : s.enabled)

\* sources.find(s => s.key === key) / findIndex: the first index with the key, 0 if none
indexOfKey(sources, key) ==
  IF \E i \in 1..Len(sources) : sources[i].key = key
    THEN CHOOSE i \in 1..Len(sources) :
           sources[i].key = key /\ \A j \in 1..(i - 1) : sources[j].key # key
    ELSE 0

\* sources.find(s => s.isDefault): the first index marked default, 0 if none
indexOfDefault(sources) ==
  IF \E i \in 1..Len(sources) : sources[i].isDefault
    THEN CHOOSE i \in 1..Len(sources) :
           sources[i].isDefault /\ \A j \in 1..(i - 1) : ~sources[j].isDefault
    ELSE 0

----------------------------------------------------------------------------
(* Source registry: EmbyManager *)

\* no EmbyClient (the call threw)
NoClient == [key |-> NoKey, enabled |-> FALSE, isDefault |-> FALSE, cred |-> "cred1"]

has(cl, k) == k \in DOMAIN cl

\* this.clients.set(key, new EmbyClient(sourceConfig))
setClient(cl, k, sourceConfig) == (k :> sourceConfig) @@ cl

\* the key getClient resolves when none is given
defaultKey(sources) ==
  LET d == indexOfDefault(sources)
  IN  IF d # 0 THEN sources[d].key ELSE sources[1].key

\* the number of EmbyClient objects built for key k
count(c, k) == IF k \in DOMAIN c THEN c[k] ELSE 0

\* the construction counts after new EmbyClient was called for each key of made
RECURSIVE noteConstructed(_, _)
noteConstructed(c, made) ==
  IF made = <<>> THEN c
  ELSE noteConstructed((Head(made) :> (count(c, Head(made)) + 1)) @@ c, Tail(made))

\* a getClient that builds a client on every call instead of looking in the cache
getClientAlwaysNew(cfg, cl, keyArg) ==
  LET sources == getSources(cfg)
      failed(o, k) == [outcome |-> o, key |-> k, client |-> NoClient, clients |-> cl,
                       made |-> <<>>]
  IN  IF Len(sources) = 0 THEN failed("NotConfigured", keyArg)
      ELSE
        LET key == IF keyArg = NoKey THEN defaultKey(sources) ELSE keyArg
            idx == indexOfKey(sources, key)
        IN  IF idx = 0 THEN failed("NotFound", key)
            ELSE IF ~sources[idx].enabled THEN failed("Disabled", key)
            ELSE [outcome |-> "ok", key |-> key, client |-> sources[idx],
                  clients |-> setClient(cl, key, sources[idx]), made |-> <<key>>]

\* EmbyManager.getClient: [outcome, key, client, clients, made]; made lists the keys
\* new EmbyClient was called for
getClient(cfg, cl, keyArg) ==
  LET sources == getSources(cfg)
      failed(o, k) == [outcome |-> o, key |-> k, client |-> NoClient, clients |-> cl,
                       made |-> <<>>]
  IN  IF Len(sources) = 0 THEN failed("NotConfigured", keyArg)
      ELSE
        LET key == IF keyArg = NoKey THEN defaultKey(sources) ELSE keyArg
            idx == indexOfKey(sources, key)
        IN  IF has(cl, key)
              THEN [outcome |-> "ok", key |-> key, client |-> cl[key], clients |-> cl,
                    made |-> <<>>]
            ELSE IF idx = 0 THEN failed("NotFound", key)
            ELSE IF ~sources[idx].enabled THEN failed("Disabled", key)
            ELSE [outcome |-> "ok", key |-> key, client |-> sources[idx],
                  clients |-> setClient(cl, key, sources[idx]), made |-> <<key>>]

\* EmbyManager.getAllClients: the cache after the loop over the enabled sources
RECURSIVE fillClients(_, _)
fillClients(cl, enabled) ==
  IF enabled = <<>> THEN cl
  ELSE LET s == Head(enabled)
       IN  fillClients(IF has(cl, s.key) THEN cl ELSE setClient(cl, s.key, s), Tail(enabled))

\* EmbyManager.getAllClients: the keys new EmbyClient is called for, in loop order
RECURSIVE madeByFill(_, _)
madeByFill(cl, enabled) ==
  IF enabled = <<>> THEN <<>>
  ELSE LET s == Head(enabled)
       IN  IF has(cl, s.key)
             THEN madeByFill(cl, Tail(enabled))
             ELSE <<s.key>> \o madeByFill(setClient(cl, s.key, s), Tail(enabled))

\* a clearCache that drops one cached client per call
clearCacheOne(cl) ==
  IF DOMAIN cl = {} THEN cl
  ELSE LET k == CHOOSE x \in DOMAIN cl : TRUE
       IN  [x \in DOMAIN cl \ {k} |-> cl[x]]

\* EmbyManager.clearCache
clearCache(cl) == <<>>

\* EmbyManager.getAllClients: the values of the returned map, in insertion order
allClientEntries(cfg, cl) ==
  LET enabled == getEnabledSources(cfg)
      filled == fillClients(cl, enabled)
  IN  [i \in 1..Len(enabled) |-> [client |-> filled[enabled[i].key], config |-> enabled[i]]]

----------------------------------------------------------------------------
(* Detail router: getEmbyDetail up to the resolution of the client *)

\* the embyKey parsed from the source tag
embyKeyOf(source) == IF StartsWith(source, STR_emby_) THEN Substring(source, 5) ELSE NoKey

\* getEmbyDetail up to line 32: [outcome, key, client, clients, made]
getEmbyDetail(cfg, cl, source) ==
  IF ~cfg.EmbyConfig.hasSources \/ Len(cfg.EmbyConfig.Sources) = 0
    THEN [outcome |-> "NotConfigured", key |-> NoKey, client |-> NoClient, clients |-> cl,
          made |-> <<>>]
    ELSE getClient(cfg, cl, embyKeyOf(source))

----------------------------------------------------------------------------
(* GET /api/search *)

Queries ==
  { [present |-> FALSE, text |-> <<>>],
    [present |-> TRUE, text |-> <<>>],
    [present |-> TRUE, text |-> <<"q">>] }

\* a test for null that lets the empty string through
emptyQueryNullOnly(q) == ~q.present

\* !query
emptyQuery(q) == ~q.present \/ q.text = <<>>

\* the blacklist lib/yellow exports
yellowWords == { <<"l", "l">>, <<"f", "l">> }

\* type names a generic API site reports: the first contains the letters of a
\* blacklisted token without containing the token
TypeClean == <<"l", "x", "l">>
TypeYellow == <<"x", "l", "l">>

\* a promise of searchPromises; how it was settled is kept for the properties
Pending == [state |-> "pending", how |-> "none", value |-> <<>>]
Settled(how, value) == [state |-> "settled", how |-> how, value |-> value]

\* a promise of embyPromises
EmbyPending == [state |-> "pending", value |-> <<>>]
EmbySettled(value) == [state |-> "settled", value |-> value]

NoResponse == [status |-> 0, results |-> <<>>, cacheable |-> FALSE]

\* what an Emby server answers to getItems: n items, Movie and Series alternating
EmbyItems(n) == [i \in 1..n |-> [Id |-> i, Type |-> IF i % 2 = 1 THEN "Movie" ELSE "Series"]]

\* what searchFromApi resolves to for a site: n results, result number y (if any)
\* carrying a blacklisted type name
ApiResults(site, n, y) ==
  [i \in 1..n |-> [id |-> i, source |-> site,
                   type_name |-> IF i = y THEN TypeYellow ELSE TypeClean]]

\* a tag that is suffixed whatever the number of instances
sourceValueAlwaysKeyed(nSources, key) == STR_emby_ \o key

\* the source tag of a result of the instance with this key
sourceValue(nSources, key) == IF nSources = 1 THEN STR_emby ELSE STR_emby_ \o key

\* searchResult.Items.map(...)
embyResults(items, nSources, key) ==
  [i \in 1..Len(items) |->
     [id |-> items[i].Id,
      source |-> sourceValue(nSources, key),
      type_name |-> IF items[i].Type = "Movie" THEN STR_movie ELSE STR_series]]

\* a filter that compares the whole type name with the tokens
yellowFilterWholeName(results) ==
  SelectSeq(results, LAMBDA r : r.type_name \notin yellowWords)

\* the content filter
yellowFilter(results) ==
  SelectSeq(results, LAMBDA r : ~\E w \in yellowWords : Includes(r.type_name, w))

allSettled(tasks) == \A i \in 1..Len(tasks) : tasks[i].state = "settled"

\* the body of the try block: flatten, filter
searchResults(tasks, disabled) ==
  LET flattenedResults == Flat([i \in 1..Len(tasks) |-> tasks[i].value])
  IN  IF ~disabled THEN yellowFilter(flattenedResults) ELSE flattenedResults

\* the request is answered 401 without a query being read
SearchUnauthorized ==
  /\ pc = "idle"
  /\ pc' = "done"
  /\ response' = [status |-> 401, results |-> <<>>, cacheable |-> FALSE]
  /\ UNCHANGED <<detailVars, auxVars, config, clients, embySources, embyTask, apiSites, apiTask,
                 filterOff, calls, query, ret, imports, constructed, clears, req>>

\* if (!query): an empty result with cache headers
SearchEmpty(q) ==
  /\ pc = "idle"
  /\ emptyQuery(q)
  /\ pc' = "done"
  /\ query' = q
  /\ response' = [status |-> 200, results |-> <<>>, cacheable |-> TRUE]
  /\ UNCHANGED <<detailVars, auxVars, config, clients, embySources, embyTask, apiSites, apiTask,
                 filterOff, calls, ret, imports, constructed, clears, req>>

\* getConfig, getAvailableApiSites, getAllClients, then every task is launched
SearchStart(q, n) ==
  /\ pc = "idle"
  /\ ~emptyQuery(q)
  /\ pc' = "running"
  /\ query' = q
  /\ apiSites' = [j \in 1..n |-> <<SiteNames[j]>>]
  /\ clients' = fillClients(clients, getEnabledSources(config))
  /\ embySources' = allClientEntries(config, clients)
  /\ embyTask' = [i \in 1..Len(getEnabledSources(config)) |-> EmbyPending]
  /\ apiTask' = [j \in 1..n |-> Pending]
  /\ calls' = Len(getEnabledSources(config)) + n
  /\ constructed' = noteConstructed(constructed, madeByFill(clients, getEnabledSources(config)))
  /\ clears' = 0
  /\ UNCHANGED <<detailVars, auxVars, config, filterOff, response, ret, imports, req>>

\* client.getItems resolves
EmbyReturn(i, n) ==
  /\ pc \in {"running", "done"}
  /\ i \in 1..Len(embyTask)
  /\ embyTask[i].state = "pending"
  /\ embyTask' = [embyTask EXCEPT ![i] =
       EmbySettled(embyResults(EmbyItems(n), Len(embySources), embySources[i].config.key))]
  /\ UNCHANGED <<detailVars, auxVars, config, clients, pc, embySources, apiSites, apiTask, filterOff,
                 calls, response, query, ret, imports, constructed, clears, req>>

\* client.getItems rejects: the task's own catch returns []
EmbyThrow(i) ==
  /\ pc \in {"running", "done"}
  /\ i \in 1..Len(embyTask)
  /\ embyTask[i].state = "pending"
  /\ embyTask' = [embyTask EXCEPT ![i] = EmbySettled(<<>>)]
  /\ UNCHANGED <<detailVars, auxVars, config, clients, pc, embySources, apiSites, apiTask, filterOff,
                 calls, response, query, ret, imports, constructed, clears, req>>

\* the 20000 ms timer wins the race: the outer catch returns []
EmbyTimeout(i) ==
  /\ pc \in {"running", "done"}
  /\ i \in 1..Len(embyTask)
  /\ embyTask[i].state = "pending"
  /\ embyTask' = [embyTask EXCEPT ![i] = EmbySettled(<<>>)]
  /\ UNCHANGED <<detailVars, auxVars, config, clients, pc, embySources, apiSites, apiTask, filterOff,
                 calls, response, query, ret, imports, constructed, clears, req>>

\* searchFromApi resolves
ApiReturn(j, n, y) ==
  /\ pc = "running"
  /\ j \in 1..Len(apiTask)
  /\ apiTask[j].state = "pending"
  /\ apiTask' = [apiTask EXCEPT ![j] = Settled("ok", ApiResults(apiSites[j], n, y))]
  /\ UNCHANGED <<detailVars, auxVars, config, clients, pc, embySources, embyTask, apiSites, filterOff,
                 calls, response, query, ret, imports, constructed, clears, req>>

\* searchFromApi rejects: the catch returns []
ApiThrow(j) ==
  /\ pc = "running"
  /\ j \in 1..Len(apiTask)
  /\ apiTask[j].state = "pending"
  /\ apiTask' = [apiTask EXCEPT ![j] = Settled("threw", <<>>)]
  /\ UNCHANGED <<detailVars, auxVars, config, clients, pc, embySources, embyTask, apiSites, filterOff,
                 calls, response, query, ret, imports, constructed, clears, req>>

\* a race without a timer: the promise settles only when searchFromApi does
ApiTimerNeverFires(j) ==
  /\ FALSE
  /\ UNCHANGED vars

\* the 20000 ms timer wins the race: the catch returns []
ApiTimeout(j) ==
  /\ pc = "running"
  /\ j \in 1..Len(apiTask)
  /\ apiTask[j].state = "pending"
  /\ apiTask' = [apiTask EXCEPT ![j] = Settled("timeout", <<>>)]
  /\ UNCHANGED <<detailVars, auxVars, config, clients, pc, embySources, embyTask, apiSites, filterOff,
                 calls, response, query, ret, imports, constructed, clears, req>>

\* a race whose promise takes the value of whichever side settles last
settleLateOverwrites(task, value) == Settled("ok", value)

\* a promise that has settled keeps its state: resolving it again has no effect
settleLate(task, value) == task

\* searchFromApi resolves after the timer of its task has won the race
ApiLateReturn(j, n, y) ==
  /\ pc \in {"running", "done"}
  /\ j \in 1..Len(apiTask)
  /\ apiTask[j].state = "settled" /\ apiTask[j].how = "timeout"
  /\ j \notin DOMAIN late
  /\ late' = (j :> [value |-> ApiResults(apiSites[j], n, y), pc |-> pc]) @@ late
  /\ apiTask' = [apiTask EXCEPT ![j] = settleLate(apiTask[j], ApiResults(apiSites[j], n, y))]
  /\ UNCHANGED <<detailVars, viewVars, cacheVars, callers, listVars, config, clients, pc, embySources, embyTask,
                 apiSites, filterOff, calls, response, query, ret, imports, constructed,
                 clears, req>>

\* the promises Promise.allSettled waits for
awaited == apiTask

\* Promise.allSettled has resolved: flatten, filter, respond; disabled is
\* config.SiteConfig.DisableYellowFilter of the request's configuration
Collect(disabled) ==
  /\ pc = "running"
  /\ allSettled(awaited)
  /\ pc' = "done"
  /\ filterOff' = disabled
  /\ LET results == searchResults(awaited, disabled)
     IN  response' = [status |-> 200, results |-> results, cacheable |-> (Len(results) # 0)]
  /\ UNCHANGED <<detailVars, auxVars, config, clients, embySources, embyTask, apiSites, apiTask,
                 calls, query, ret, imports, constructed, clears, req>>

\* a click on result r of Emby task i of the answered request: getDetail(r.source, r.id)
Detail(i, r) ==
  /\ pc = "done"
  /\ response.status = 200
  /\ i \in 1..Len(embyTask)
  /\ r \in 1..Len(embyTask[i].value)
  /\ LET res == getEmbyDetail(config, clients, embyTask[i].value[r].source)
     IN  /\ clients' = res.clients
         /\ ret' = [op |-> "detail", origin |-> embySources[i].config.key,
                    outcome |-> res.outcome, key |-> res.key, client |-> res.client]
         /\ constructed' = noteConstructed(constructed, res.made)
  /\ clears' = 0
  /\ UNCHANGED <<detailVars, auxVars, config, searchVars, imports, req>>

----------------------------------------------------------------------------
(* The list / views cache: lib/emby-cache *)

\* six hours, the unit of the clock
EMBY_CACHE_TTL_MS == 1
\* one day
EMBY_VIEWS_CACHE_TTL_MS == 4

Data == 1..MaxData

\* null
NoData == 0

STR_embyViews == <<"e", "m", "b", "y", ":", "v", "i", "e", "w", "s">>
STR_list == <<":", "l", "i", "s", "t", ":">>

\* the page size the list endpoint is called with
PageSize == <<"2", "0">>

\* makeListCacheKey with page and pageSize already formatted; no parentId, no embyKey: <<>>
makeListCacheKey(page, pageSize, parentId, embyKey) ==
  LET keyPrefix == IF embyKey # NoKey THEN STR_emby \o STR_colon \o embyKey ELSE STR_emby
  IN  IF parentId # <<>>
        THEN keyPrefix \o STR_list \o page \o STR_colon \o pageSize \o STR_colon \o parentId
        ELSE keyPrefix \o STR_list \o page \o STR_colon \o pageSize

\* the cache key of getCachedEmbyViews / setCachedEmbyViews
viewsCacheKey(embyKey) == STR_embyViews \o STR_colon \o embyKey

\* the default value of the embyKey parameter of the views getter and setter
embyKeyOrDefault(embyKey) == IF embyKey = NoKey THEN STR_default ELSE embyKey

\* the arguments of a call of the list getter / setter, and of the views getter / setter
listArgs(page, pageSize, parentId, embyKey) == <<"list", page, pageSize, parentId, embyKey>>

viewsArgs(embyKey) == <<"views", embyKey>>

\* the first page of the whole library of the default instance
FirstPage == listArgs(<<"1">>, PageSize, <<>>, NoKey)

\* the cache key of a call
cacheKeyOf(args) ==
  IF args[1] = "list"
    THEN makeListCacheKey(args[2], args[3], args[4], args[5])
    ELSE viewsCacheKey(embyKeyOrDefault(args[2]))

\* the list keys and the views keys the endpoints use
ListKeys == {makeListCacheKey(<<"1">>, PageSize, <<>>, NoKey)}
ViewsKeys == {viewsCacheKey(STR_default)}
CacheKeys == ListKeys \cup ViewsKeys

\* Map.prototype.delete
deleteKey(c, key) == [k \in DOMAIN c \ {key} |-> c[k]]

\* Map.prototype.set
setKey(c, key, entry) == (key :> entry) @@ c

\* a views getter that still returns the entry at the instant it expires
getCachedEmbyViewsLate(c, cacheKey, t) ==
  IF cacheKey \notin DOMAIN c
    THEN [value |-> NoData, cache |-> c]
    ELSE IF c[cacheKey].expiresAt < t
      THEN [value |-> NoData, cache |-> deleteKey(c, cacheKey)]
      ELSE [value |-> c[cacheKey].data, cache |-> c]

\* a list getter that answers null for an expired entry and leaves it in the map
getCachedEmbyListKeepsExpired(c, key, t) ==
  IF key \notin DOMAIN c
    THEN [value |-> NoData, cache |-> c]
    ELSE IF c[key].expiresAt <= t
      THEN [value |-> NoData, cache |-> c]
      ELSE [value |-> c[key].data, cache |-> c]

\* getCachedEmbyList: the value returned and the map it leaves
getCachedEmbyList(c, key, t) ==
  IF key \notin DOMAIN c
    THEN [value |-> NoData, cache |-> c]
    ELSE IF c[key].expiresAt <= t
      THEN [value |-> NoData, cache |-> deleteKey(c, key)]
      ELSE [value |-> c[key].data, cache |-> c]

\* setCachedEmbyList
setCachedEmbyList(c, key, data, t) ==
  setKey(c, key, [expiresAt |-> t + EMBY_CACHE_TTL_MS, data |-> data])

\* getCachedEmbyViews: the value returned and the map it leaves
getCachedEmbyViews(c, cacheKey, t) ==
  IF cacheKey \notin DOMAIN c
    THEN [value |-> NoData, cache |-> c]
    ELSE IF c[cacheKey].expiresAt <= t
      THEN [value |-> NoData, cache |-> deleteKey(c, cacheKey)]
      ELSE [value |-> c[cacheKey].data, cache |-> c]

\* a views setter that writes its entry under the list key
setCachedEmbyViewsOtherKey(c, cacheKey, data, t) ==
  setKey(c, CHOOSE k \in ListKeys : TRUE,
         [expiresAt |-> t + EMBY_VIEWS_CACHE_TTL_MS, data |-> data])

\* setCachedEmbyViews
setCachedEmbyViews(c, cacheKey, data, t) ==
  setKey(c, cacheKey, [expiresAt |-> t + EMBY_VIEWS_CACHE_TTL_MS, data |-> data])

\* the answer of the catch of GET /api/emby/views: { error, views: [] }
ViewsErrorResponse == MaxData + 1

\* a catch that caches the answer it sends
viewsCatchCaches(c, cacheKey, t) == setCachedEmbyViews(c, cacheKey, ViewsErrorResponse, t)

\* the catch of GET /api/emby/views: what it does to the map
viewsCatch(c, cacheKey, t) == c

\* a clear that counts only the entries that have not expired
clearEmbyCacheLiveOnly(c, t) ==
  [cleared |-> Cardinality({k \in DOMAIN c : c[k].expiresAt > t}), cache |-> <<>>]

\* clearEmbyCache: the count returned and the map it leaves
clearEmbyCache(c, t) == [cleared |-> Cardinality(DOMAIN c), cache |-> <<>>]

\* getEmbyCacheStats
getEmbyCacheStats(c) == [size |-> Cardinality(DOMAIN c), keys |-> DOMAIN c]

NoCacheRet ==
  [op |-> "none", args |-> <<>>, key |-> <<>>, value |-> NoData, size |-> 0, keys |-> {},
   expired |-> 0]

NoViewsRequest == [pc |-> "idle", arg |-> <<>>, key |-> <<>>]

\* the record of a set on a key: what was written, when, by which call, and everything
\* written so far
noteSet(w, key, data, t, args) ==
  (key :> [data |-> data, at |-> t, live |-> TRUE, args |-> args,
           all |-> IF key \in DOMAIN w THEN w[key].all \cup {data} ELSE {data}]) @@ w

\* the record of a clear: no earlier set is live any more
noteClear(w) == [k \in DOMAIN w |-> [w[k] EXCEPT !.live = FALSE]]

\* time passes
Tick ==
  /\ now < MaxTime
  /\ now' = now + 1
  /\ UNCHANGED <<detailVars, viewVars, cache, cacheRet, written, viewsReq, callers, late, listVars, config, clients, searchVars,
                 ret, imports, constructed, clears, req>>

\* a day passes
Day ==
  /\ now + EMBY_VIEWS_CACHE_TTL_MS <= MaxTime
  /\ now' = now + EMBY_VIEWS_CACHE_TTL_MS
  /\ UNCHANGED <<detailVars, viewVars, cache, cacheRet, written, viewsReq, callers, late, listVars, config, clients, searchVars,
                 ret, imports, constructed, clears, req>>

\* a caller reads the list cache
GetList(args) ==
  /\ LET key == cacheKeyOf(args)
         got == getCachedEmbyList(cache, key, now)
     IN  /\ cache' = got.cache
         /\ cacheRet' = [NoCacheRet EXCEPT !.op = "get", !.args = args, !.key = key,
                                           !.value = got.value]
  /\ UNCHANGED <<detailVars, viewVars, now, written, viewsReq, callers, late, listVars, config, clients, searchVars,
                 ret, imports, constructed, clears, req>>

\* a caller writes the list cache
SetList(args, data) ==
  /\ cache' = setCachedEmbyList(cache, cacheKeyOf(args), data, now)
  /\ written' = noteSet(written, cacheKeyOf(args), data, now, args)
  /\ cacheRet' = [NoCacheRet EXCEPT !.op = "set", !.args = args, !.key = cacheKeyOf(args),
                                    !.value = data]
  /\ UNCHANGED <<detailVars, viewVars, now, viewsReq, callers, late, listVars, config, clients, searchVars,
                 ret, imports, constructed, clears, req>>

\* a caller reads the views cache
GetViews(embyKey) ==
  /\ LET key == cacheKeyOf(viewsArgs(embyKey))
         got == getCachedEmbyViews(cache, key, now)
     IN  /\ cache' = got.cache
         /\ cacheRet' = [NoCacheRet EXCEPT !.op = "get", !.args = viewsArgs(embyKey),
                                           !.key = key, !.value = got.value]
  /\ UNCHANGED <<detailVars, viewVars, now, written, viewsReq, callers, late, listVars, config, clients, searchVars,
                 ret, imports, constructed, clears, req>>

\* a caller writes the views cache
SetViews(embyKey, data) ==
  /\ cache' = setCachedEmbyViews(cache, cacheKeyOf(viewsArgs(embyKey)), data, now)
  /\ written' = noteSet(written, cacheKeyOf(viewsArgs(embyKey)), data, now,
                        viewsArgs(embyKey))
  /\ cacheRet' = [NoCacheRet EXCEPT !.op = "set", !.args = viewsArgs(embyKey),
                                    !.key = cacheKeyOf(viewsArgs(embyKey)), !.value = data]
  /\ UNCHANGED <<detailVars, viewVars, now, viewsReq, callers, late, listVars, config, clients, searchVars,
                 ret, imports, constructed, clears, req>>

\* POST /api/admin/emby, action clearCache: clearEmbyCache() and the count in the answer;
\* expired is the number of entries that had expired and were still held
ClearEmbyCache ==
  /\ LET res == clearEmbyCache(cache, now)
     IN  /\ cache' = res.cache
         /\ cacheRet' = [NoCacheRet EXCEPT
                           !.op = "clear", !.size = res.cleared,
                           !.expired = Cardinality({k \in DOMAIN cache :
                                                      cache[k].expiresAt <= now})]
  /\ written' = noteClear(written)
  /\ UNCHANGED <<detailVars, viewVars, now, viewsReq, callers, late, listVars, config, clients, searchVars,
                 ret, imports, constructed, clears, req>>

\* a caller asks for the statistics
Stats ==
  /\ LET st == getEmbyCacheStats(cache)
     IN  cacheRet' = [NoCacheRet EXCEPT !.op = "stats", !.size = st.size, !.keys = st.keys]
  /\ UNCHANGED <<detailVars, viewVars, cache, now, written, viewsReq, callers, late, listVars, config, clients, searchVars,
                 ret, imports, constructed, clears, req>>

----------------------------------------------------------------------------
(* Concurrent calls of the registry: each call awaits getSources(), then runs the rest
   of its body without yielding *)

NoCaller ==
  [pc |-> "idle", op |-> "none", arg |-> NoKey, sources |-> <<>>, outcome |-> "none",
   got |-> <<>>]

\* a call of getClient(k) or getAllClients() begins: await this.getSources()
ResolveStart(c, op, k) ==
  /\ callers[c].pc \in {"idle", "done"}
  /\ callers' = [callers EXCEPT ![c] =
                   [pc |-> "awaiting", op |-> op, arg |-> k, sources |-> config,
                    outcome |-> "none", got |-> <<>>]]
  /\ UNCHANGED <<detailVars, viewVars, cacheVars, late, listVars, config, clients, searchVars, ret, imports,
                 constructed, clears, req>>

\* getSources() has returned: the rest of getClient runs to its return or throw; got is
\* the handle returned, named by its key and its number among the handles built for it
GetClientReturn(c) ==
  /\ callers[c].pc = "awaiting" /\ callers[c].op = "getClient"
  /\ LET res == getClient(callers[c].sources, clients, callers[c].arg)
     IN  /\ clients' = res.clients
         /\ constructed' = noteConstructed(constructed, res.made)
         /\ callers' = [callers EXCEPT ![c] =
                          [@ EXCEPT !.pc = "done", !.outcome = res.outcome,
                                    !.got = IF res.outcome = "ok"
                                              THEN (res.key :> count(constructed', res.key))
                                              ELSE <<>>]]
  /\ clears' = 0
  /\ UNCHANGED <<detailVars, viewVars, cacheVars, late, listVars, config, searchVars, ret, imports, req>>

\* getSources() has returned: the loop of getAllClients runs to its return
GetAllClientsReturn(c) ==
  /\ callers[c].pc = "awaiting" /\ callers[c].op = "getAllClients"
  /\ LET enabled == getEnabledSources(callers[c].sources)
     IN  /\ clients' = fillClients(clients, enabled)
         /\ constructed' = noteConstructed(constructed, madeByFill(clients, enabled))
         /\ callers' = [callers EXCEPT ![c] =
                          [@ EXCEPT !.pc = "done", !.outcome = "ok",
                                    !.got = [k \in {enabled[i].key : i \in 1..Len(enabled)}
                                               |-> count(constructed', k)]]]
  /\ clears' = 0
  /\ UNCHANGED <<detailVars, viewVars, cacheVars, late, listVars, config, searchVars, ret, imports, req>>

ConcurrentNext ==
  \/ \E c \in 1..MaxRequests, k \in Keys \cup {NoKey} : ResolveStart(c, "getClient", k)
  \/ \E c \in 1..MaxRequests : ResolveStart(c, "getAllClients", NoKey)
  \/ \E c \in 1..MaxRequests : GetClientReturn(c)
  \/ \E c \in 1..MaxRequests : GetAllClientsReturn(c)

----------------------------------------------------------------------------
(* The detail bodies: what each entry point builds from the item the backend returned *)

\* an episode field (ParentIndexNumber, IndexNumber) the backend left out: undefined
Missing == -1

IndexValues == {Missing} \cup 0..MaxIndex

\* the lists of episodes a series can have, in the order the backend returns them
EpisodeLists ==
  UNION { { [i \in 1..n |-> [Id |-> i, ParentIndexNumber |-> f[i][1],
                             IndexNumber |-> f[i][2]]]
            : f \in [1..n -> IndexValues \X IndexValues] }
          : n \in 0..MaxEpisodes }

\* the item types of a library: BoxSet stands for every type that is neither Movie nor Series
ItemTypes == {"Movie", "Series", "BoxSet"}

\* the items client.getItem(id) can return
Items ==
  { [Id |-> 0, Type |-> "Movie", episodes |-> <<>>],
    [Id |-> 0, Type |-> "BoxSet", episodes |-> <<>>] }
    \cup { [Id |-> 0, Type |-> "Series", episodes |-> eps] : eps \in EpisodeLists }

DefaultItem == [Id |-> 0, Type |-> "Movie", episodes |-> <<>>]

NoDetail == [entry |-> "none", outcome |-> "none", episodes |-> <<>>, episodes_titles |-> <<>>]

\* x || 0
orZero(x) == IF x = Missing THEN 0 ELSE x

\* x || 1
orOne(x) == IF x = Missing \/ x = 0 THEN 1 ELSE x

\* the comparator of the three episode sorts
compareEpisodes(a, b) ==
  IF a.ParentIndexNumber # b.ParentIndexNumber
    THEN orZero(a.ParentIndexNumber) - orZero(b.ParentIndexNumber)
    ELSE orZero(a.IndexNumber) - orZero(b.IndexNumber)

\* a comparator that counts a missing number as 0 before it compares
compareEpisodesAsZero(a, b) ==
  IF orZero(a.ParentIndexNumber) # orZero(b.ParentIndexNumber)
    THEN orZero(a.ParentIndexNumber) - orZero(b.ParentIndexNumber)
    ELSE orZero(a.IndexNumber) - orZero(b.IndexNumber)

\* the orders of 1..n
Orders(n) == {p \in [1..n -> 1..n] : \A i, j \in 1..n : i # j => p[i] # p[j]}

\* Array.prototype.sort with compareEpisodes: the stable order where the comparator is
\* consistent on the elements, an implementation-defined order of them where it is not
sortEpisodes(eps) ==
  LET n == Len(eps)
      stable == {p \in Orders(n) : \A i, j \in 1..n : i < j =>
                   \/ compareEpisodes(eps[p[i]], eps[p[j]]) < 0
                   \/ compareEpisodes(eps[p[i]], eps[p[j]]) = 0 /\ p[i] < p[j]}
      chosen == IF stable # {} THEN stable ELSE Orders(n)
  IN  {[i \in 1..n |-> eps[p[i]]] : p \in chosen}

\* client.getStreamUrl(id)
getStreamUrl(id) == <<"stream", id>>

\* the title the router gives an episode: S<season || 1>E<episode || 1>
DIGITS == <<"0", "1", "2", "3", "4", "5", "6", "7", "8", "9">>

\* n.toString() of a number that is not negative
RECURSIVE toString(_)
toString(n) ==
  IF n < 10 THEN <<DIGITS[n + 1]>>
  ELSE toString(n \div 10) \o <<DIGITS[(n % 10) + 1]>>

\* s.padStart(2, '0')
padStart2(s) == IF Len(s) < 2 THEN [i \in 1..(2 - Len(s)) |-> "0"] \o s ELSE s

\* the label of season s, episode e
label(s, e) == <<"S">> \o padStart2(toString(s)) \o <<"E">> \o padStart2(toString(e))

episodeTitle(ep) == label(orOne(ep.ParentIndexNumber), orOne(ep.IndexNumber))

\* a router that takes the titles from the episodes in the order the backend returned them
embyDetailBodyUnsortedTitles(entry, it, sorted) ==
  IF it.Type = "Movie"
    THEN [entry |-> entry, outcome |-> "ok", episodes |-> <<getStreamUrl(it.Id)>>,
          episodes_titles |-> <<<<"Name", it.Id>>>>]
    ELSE IF it.Type = "Series"
      THEN [entry |-> entry, outcome |-> "ok",
            episodes |-> [i \in 1..Len(sorted) |-> getStreamUrl(sorted[i].Id)],
            episodes_titles |-> [i \in 1..Len(it.episodes) |-> episodeTitle(it.episodes[i])]]
      ELSE [entry |-> entry, outcome |-> "UnsupportedMediaType", episodes |-> <<>>,
            episodes_titles |-> <<>>]

\* getEmbyDetail after getItem: the Movie branch, the Series branch, the throw
embyDetailBody(entry, it, sorted) ==
  IF it.Type = "Movie"
    THEN [entry |-> entry, outcome |-> "ok", episodes |-> <<getStreamUrl(it.Id)>>,
          episodes_titles |-> <<<<"Name", it.Id>>>>]
    ELSE IF it.Type = "Series"
      THEN [entry |-> entry, outcome |-> "ok",
            episodes |-> [i \in 1..Len(sorted) |-> getStreamUrl(sorted[i].Id)],
            episodes_titles |-> [i \in 1..Len(sorted) |-> episodeTitle(sorted[i])]]
      ELSE [entry |-> entry, outcome |-> "UnsupportedMediaType", episodes |-> <<>>,
            episodes_titles |-> <<>>]

\* GET /api/emby/detail after getItem: success: true for every item type, the episodes
\* of a Series and an empty list for everything else
embyDetailRouteBody(it, sorted) ==
  [entry |-> "api", outcome |-> "ok",
   episodes |-> IF it.Type = "Series"
                  THEN [i \in 1..Len(sorted) |->
                          [id |-> sorted[i].Id, episode |-> orZero(sorted[i].IndexNumber),
                           season |-> orOne(sorted[i].ParentIndexNumber),
                           playUrl |-> getStreamUrl(sorted[i].Id)]]
                  ELSE <<>>,
   episodes_titles |-> IF it.Type = "Series"
                         THEN [i \in 1..Len(sorted) |-> <<"Name", sorted[i].Id>>]
                         ELSE <<>>]

\* handleDetail of the CMS proxy: code 1 with one list entry for every item type;
\* vod_play_url is built for a Movie and a Series and stays empty for everything else
cmsHandleDetail(it, sorted) ==
  [entry |-> "cms", outcome |-> "ok",
   episodes |-> IF it.Type = "Movie"
                  THEN <<getStreamUrl(it.Id)>>
                  ELSE IF it.Type = "Series"
                    THEN [i \in 1..Len(sorted) |-> getStreamUrl(sorted[i].Id)]
                    ELSE <<>>,
   episodes_titles |-> IF it.Type = "Movie"
                         THEN <<<<"Name", it.Id>>>>
                         ELSE IF it.Type = "Series"
                           THEN [i \in 1..Len(sorted) |-> <<"E", sorted[i].IndexNumber>>]
                           ELSE <<>>]

\* what an entry point hands back when no client was resolved
detailFailure(entry, outcome) ==
  [entry |-> entry, outcome |-> outcome, episodes |-> <<>>, episodes_titles |-> <<>>]

----------------------------------------------------------------------------
(* The file-index kinds of the detail router: getOpenListDetail, getXiaoyaDetail *)

NoFileIndex == [openlist |-> FALSE, xiaoya |-> FALSE]

\* getCachedVideoInfo(folderPath) finds nothing
NoVideoInfo == [cached |-> FALSE, episodes |-> <<>>]

\* the values of (sourceType, embyKey, selectedView, sortBy, sortOrder) the page tells
\* apart: the emby source with no embyKey, and two selections that can be listed
NoEmbyKey == "noEmbyKey"

LibraryDeps == {NoEmbyKey, "view1", "view2"}

\* the private-library page as useState / useRef initialise it; ran is the (deps, page)
\* of the last run of the effects, none yet
NoLibrary == [videos |-> <<>>, loading |-> TRUE, loadingMore |-> FALSE, hasMore |-> TRUE,
              error |-> FALSE, page |-> 1, deps |-> NoEmbyKey, ran |-> <<>>, isFetching |-> FALSE,
              requests |-> <<>>]

NoListing == [pc |-> "idle", page |-> 1, files |-> <<>>, hit |-> FALSE,
              videoInfo |-> NoVideoInfo, parses |-> 0]

\* no id has been decoded
NotDecoded == [done |-> FALSE, threw |-> FALSE, path |-> <<>>]

NoXiaoyaRequest == [pc |-> "idle", decoded |-> NotDecoded, outcome |-> "none", calls |-> 0]

\* what the file names of a folder tell: a video extension, and for a video the episode
\* number parseVideoFileName reads (0: none) and the OVA mark
FileKinds ==
  [video : {TRUE}, episode : 0..1, isOVA : BOOLEAN]
    \cup {[video |-> FALSE, episode |-> 0, isOVA |-> FALSE]}

\* the pages the backend can answer with when the loop has collected the given files:
\* the empty page, or one more file of the folder. A file stands for its name: name is
\* its place in the order of localeCompare, the other fields are what the name tells
Pages(files) ==
  {<<>>} \cup
  { <<[name |-> Len(files) + 1, video |-> f.video, episode |-> f.episode, isOVA |-> f.isOVA]>>
    : f \in IF Len(files) < MaxFiles THEN FileKinds ELSE {} }

\* listResponse.data.total: a total the collected files have reached whatever the page
\* holds, and one they cannot reach
Totals == {0, MaxFiles + 1}

\* allFiles.filter(...): the files with a video extension
videoFilesOf(files) == SelectSeq(files, LAMBDA f : f.video)

\* parseVideoFileName(file.name)
parseVideoFileName(f) == [episode |-> f.episode, isOVA |-> f.isOVA]

\* videoFiles.sort((a, b) => a.name.localeCompare(b.name))
sortByName(videoFiles) ==
  LET n == Len(videoFiles)
      p == CHOOSE q \in Orders(n) :
             \A i, j \in 1..n : i < j => videoFiles[q[i]].name < videoFiles[q[j]].name
  IN  [i \in 1..n |-> videoFiles[p[i]]]

\* the first view of a folder: every file of the sorted list is parsed, a file without
\* a number gets its place in the list, and the result is what setCachedVideoInfo stores
parseFolder(sorted) ==
  [cached |-> TRUE,
   episodes |-> [f \in {sorted[i] : i \in 1..Len(sorted)} |->
                   LET parsed == parseVideoFileName(f)
                       i == CHOOSE k \in 1..Len(sorted) : sorted[k] = f
                   IN  [episode |-> IF parsed.episode # 0 THEN parsed.episode ELSE i,
                        isOVA |-> parsed.isOVA]]]

\* the video files as the map finds them: sorted in place when nothing was cached
viewedFiles(files, hit) ==
  IF hit THEN videoFilesOf(files) ELSE sortByName(videoFilesOf(files))

\* calls of parseVideoFileName one view makes: one per file in the map, and one more
\* per file when nothing was cached
parseCalls(files, hit) ==
  IF hit THEN Len(videoFilesOf(files)) ELSE Len(videoFilesOf(files)) + Len(videoFilesOf(files))

\* the episodes of the video files before they are sorted: the number parsed from the
\* file name, else the cached result, else the place of the file among the video files
openListEpisodes(files, hit, info) ==
  LET videoFiles == viewedFiles(files, hit)
  IN  [i \in 1..Len(videoFiles) |->
         LET file == videoFiles[i]
             parsed == parseVideoFileName(file)
             episodeInfo == IF parsed.episode # 0 THEN parsed
                            ELSE IF file \in DOMAIN info.episodes THEN info.episodes[file]
                            ELSE [episode |-> i, isOVA |-> FALSE]
         IN  [fileName |-> file, episode |-> episodeInfo.episode,
              isOVA |-> episodeInfo.isOVA,
              title |-> <<IF episodeInfo.isOVA THEN "OVA" ELSE "E", episodeInfo.episode>>]]

\* a comparator that leaves the OVA mark out
compareFilesUnmarked(a, b) ==
  IF a.episode # b.episode THEN a.episode - b.episode
  ELSE a.fileName.name - b.fileName.name

\* the comparator of the episode sort: OVA last, then the number, then the file name
compareFiles(a, b) ==
  IF a.isOVA /\ ~b.isOVA THEN 1
  ELSE IF ~a.isOVA /\ b.isOVA THEN 0 - 1
  ELSE IF a.episode # b.episode THEN a.episode - b.episode
  ELSE a.fileName.name - b.fileName.name

\* episodes.sort(...): file names are distinct, so the comparator orders them totally
sortFiles(eps) ==
  LET n == Len(eps)
      p == CHOOSE q \in Orders(n) :
             \A i, j \in 1..n : i < j => compareFiles(eps[q[i]], eps[q[j]]) < 0
  IN  [i \in 1..n |-> eps[p[i]]]

\* getOpenListDetail after the listing loop: the object it returns
openListDetailBody(files, hit, info) ==
  LET episodes == sortFiles(openListEpisodes(files, hit, info))
  IN  [entry |-> "openlist", outcome |-> "ok",
       episodes |-> [i \in 1..Len(episodes) |-> <<"play", episodes[i].fileName>>],
       episodes_titles |-> [i \in 1..Len(episodes) |-> episodes[i].title]]

\* the Base58 alphabet
BASE58 ==
  <<"1", "2", "3", "4", "5", "6", "7", "8", "9",
    "A", "B", "C", "D", "E", "F", "G", "H", "J", "K", "L", "M", "N", "P", "Q", "R", "S",
    "T", "U", "V", "W", "X", "Y", "Z",
    "a", "b", "c", "d", "e", "f", "g", "h", "i", "j", "k", "m", "n", "o", "p", "q", "r",
    "s", "t", "u", "v", "w", "x", "y", "z">>

\* the digit a character stands for
digitOf(ch) == (CHOOSE i \in 1..Len(BASE58) : BASE58[i] = ch) - 1

\* the number a Base58 string stands for
RECURSIVE valueOf(_)
valueOf(s) ==
  IF s = <<>> THEN 0 ELSE valueOf(SubSeq(s, 1, Len(s) - 1)) * Len(BASE58) + digitOf(s[Len(s)])

\* the bytes of a number, most significant first
RECURSIVE bytesOf(_)
bytesOf(n) == IF n = 0 THEN <<>> ELSE bytesOf(n \div 256) \o <<n % 256>>

\* the leading '1' characters, each of which stands for a zero byte
RECURSIVE leadingZeros(_)
leadingZeros(s) ==
  IF s # <<>> /\ Head(s) = BASE58[1] THEN <<0>> \o leadingZeros(Tail(s)) ELSE <<>>

\* base58Decode: throws on a character outside the alphabet, else the decoded bytes,
\* which the caller reads as a string
base58Decode(id) ==
  IF \E i \in 1..Len(id) : id[i] \notin {BASE58[j] : j \in 1..Len(BASE58)}
    THEN [threw |-> TRUE, path |-> <<>>]
    ELSE [threw |-> FALSE, path |-> leadingZeros(id) \o bytesOf(valueOf(id))]

\* the character codes String.prototype.trim removes
Whitespace == {9, 10, 11, 12, 13, 32}

\* s.trim() === ''
trimIsEmpty(s) == \A i \in 1..Len(s) : s[i] \in Whitespace

\* the ids the router is called with: empty, not Base58, and the encodings of ' ',
\* of two spaces, of '/' and of '/a'
XiaoyaIds ==
  {<<>>, <<"0">>, <<"Z">>, <<"3", "S", "o">>, <<"p">>, <<"4", "c", "8">>}

\* what getXiaoyaEpisodes returns for a directory with n video files
XiaoyaEpisodes(n) == [i \in 1..n |-> [path |-> i, title |-> <<"T", i>>]]

\* a getXiaoyaDetail that hands the decoded path to the backend without testing it
xiaoyaCheckUnchecked(enabled, id) ==
  IF ~enabled THEN "NotConfigured"
  ELSE IF base58Decode(id).threw THEN "InvalidIdentifier"
  ELSE "ok"

\* getXiaoyaDetail up to its first call to the backend: the configuration test, the
\* decoding of the id, the test of the decoded path
xiaoyaCheck(enabled, id) ==
  IF ~enabled THEN "NotConfigured"
  ELSE IF base58Decode(id).threw THEN "InvalidIdentifier"
  ELSE IF base58Decode(id).path = <<>> \/ trimIsEmpty(base58Decode(id).path)
    THEN "InvalidIdentifier"
  ELSE "ok"

\* getXiaoyaDetail after getXiaoyaMetadata and getXiaoyaEpisodes: the object returned
xiaoyaDetailBody(eps) ==
  [entry |-> "xiaoya", outcome |-> "ok",
   episodes |-> [i \in 1..Len(eps) |-> <<"xiaoya", eps[i].path>>],
   episodes_titles |-> [i \in 1..Len(eps) |-> eps[i].title]]

----------------------------------------------------------------------------
(* Initial states *)

NoRet == [op |-> "none", origin |-> NoKey, outcome |-> "none", key |-> NoKey,
          client |-> NoClient]

\* no playback / CMS proxy / detail request yet
NoRequest == [kind |-> "none", pc |-> "idle", arg |-> NoKey, key |-> NoKey, fetches |-> 0,
              status |-> 0, response |-> 0]

\* the modern configurations of n instances: unique keys, at most one default
ModernConfigs(n) ==
  { [hasSources |-> TRUE, Sources |-> srcs, ServerURL |-> FALSE,
     Enabled |-> "absent", cred |-> "cred1"] :
       srcs \in { ss \in [1..n -> SourceConfigs] :
                    /\ \A i \in 1..n : ss[i].key = Key(i) /\ ss[i].cred = "cred1"
                    /\ Cardinality({i \in 1..n : ss[i].isDefault}) <= 1 } }

\* the legacy single-instance configurations
LegacyConfigs ==
  { [hasSources |-> FALSE, Sources |-> <<>>, ServerURL |-> TRUE, Enabled |-> e, cred |-> "cred1"] :
       e \in {"true", "false", "absent"} }

EmbyConfigs == {NoEmbyConfig} \cup LegacyConfigs \cup UNION {ModernConfigs(n) : n \in 0..MaxSources}

\* nothing is cached, no request is in flight, nothing has returned
Quiescent ==
  /\ clients = <<>>
  /\ pc = "idle"
  /\ embySources = <<>>
  /\ embyTask = <<>>
  /\ apiSites = <<>>
  /\ apiTask = <<>>
  /\ filterOff = FALSE
  /\ calls = 0
  /\ response = NoResponse
  /\ query = [present |-> FALSE, text |-> <<>>]
  /\ ret = NoRet
  /\ imports = 0
  /\ constructed = <<>>
  /\ clears = 0
  /\ req = NoRequest
  /\ cache = <<>>
  /\ now = 0
  /\ cacheRet = NoCacheRet
  /\ written = <<>>
  /\ viewsReq = [r \in 1..MaxRequests |-> NoViewsRequest]
  /\ callers = [c \in 1..MaxRequests |-> NoCaller]
  /\ late = <<>>
  /\ listing = NoListing
  /\ xiaoyaReq = NoXiaoyaRequest
  /\ videoInfo = NoVideoInfo
  /\ library = NoLibrary
  /\ detail = NoDetail

Init ==
  /\ config \in [EmbyConfig : EmbyConfigs]
  /\ item = DefaultItem
  /\ fileIndex = NoFileIndex
  /\ Quiescent

----------------------------------------------------------------------------
(* The search request and the click-through that follows it *)

Next ==
  \/ SearchUnauthorized
  \/ \E q \in Queries : SearchEmpty(q)
  \/ \E q \in Queries, n \in 0..MaxSites : SearchStart(q, n)
  \/ \E i \in 1..Len(embyTask), n \in 0..MaxEmbyItems : EmbyReturn(i, n)
  \/ \E i \in 1..Len(embyTask) : EmbyThrow(i)
  \/ \E i \in 1..Len(embyTask) : EmbyTimeout(i)
  \/ \E j \in 1..Len(apiTask), n \in 0..MaxItems : \E y \in 0..n : ApiReturn(j, n, y)
  \/ \E j \in 1..Len(apiTask) : ApiThrow(j)
  \/ \E j \in 1..Len(apiTask) : ApiTimeout(j)
  \/ \E disabled \in BOOLEAN : Collect(disabled)

Spec == Init /\ [][Next]_vars

\* the timer of a pending task fires
TimerFires ==
  \/ \E j \in 1..Len(apiTask) : ApiTimeout(j)
  \/ \E i \in 1..Len(embyTask) : EmbyTimeout(i)

\* the timers of pending tasks fire, and the handler continues when
\* Promise.allSettled resolves
FairSpec == Spec /\ WF_vars(\E disabled \in BOOLEAN : Collect(disabled)) /\ WF_vars(TimerFires)

\* the search request followed by click-throughs on what its Emby tasks produced
ClickNext ==
  \/ Next
  \/ \E i \in 1..Len(embyTask), r \in 1..MaxEmbyItems : Detail(i, r)

ClickSpec == Init /\ [][ClickNext]_vars

TypeOK ==
  /\ pc \in {"idle", "running", "done"}
  /\ Len(embyTask) = Len(embySources)
  /\ Len(apiTask) = Len(apiSites)

----------------------------------------------------------------------------
(* The registry's methods as the route handlers call them *)

\* GET /api/emby/detail: embyManager.getClient(embyKey)
GetClient(k) ==
  /\ LET res == getClient(config, clients, k)
     IN  /\ clients' = res.clients
         /\ ret' = [op |-> "getClient", origin |-> k, outcome |-> res.outcome,
                    key |-> res.key, client |-> res.client]
         /\ constructed' = noteConstructed(constructed, res.made)
  /\ clears' = 0
  /\ UNCHANGED <<detailVars, auxVars, config, searchVars, imports, req>>

\* embyManager.getAllClients()
GetAllClients ==
  /\ clients' = fillClients(clients, getEnabledSources(config))
  /\ constructed' = noteConstructed(constructed, madeByFill(clients, getEnabledSources(config)))
  /\ clears' = 0
  /\ ret' = NoRet
  /\ UNCHANGED <<detailVars, auxVars, config, searchVars, imports, req>>

\* embyManager.clearCache()
ClearCache ==
  /\ clients' = clearCache(clients)
  /\ constructed' = <<>>
  /\ clears' = IF clears >= 1 THEN 2 ELSE 1
  /\ ret' = [op |-> "clearCache", origin |-> NoKey, outcome |-> "ok", key |-> NoKey,
             client |-> NoClient]
  /\ UNCHANGED <<detailVars, auxVars, config, searchVars, imports, req>>

RegistryNext ==
  \/ \E k \in Keys \cup {NoKey, STR_default} : GetClient(k)
  \/ GetAllClients
  \/ ClearCache

RegistrySpec == Init /\ [][RegistryNext]_vars

----------------------------------------------------------------------------
(* POST /api/emby/import *)

\* the loop that overwrites the instances already present and appends the new ones
RECURSIVE mergeSources(_, _)
mergeSources(mergedSources, imported) ==
  IF imported = <<>> THEN mergedSources
  ELSE LET importSource == Head(imported)
           existingIndex == indexOfKey(mergedSources, importSource.key)
       IN  mergeSources(IF existingIndex # 0
                          THEN [mergedSources EXCEPT ![existingIndex] = importSource]
                          ELSE Append(mergedSources, importSource),
                        Tail(imported))

\* adminConfig.EmbyConfig after the import of data
importEmbyConfig(ec, data) ==
  IF data.hasSources
    THEN [ec EXCEPT !.hasSources = TRUE, !.Sources = mergeSources(ec.Sources, data.Sources)]
    ELSE [ec EXCEPT !.ServerURL = (data.ServerURL \/ ec.ServerURL),
                    !.Enabled = IF data.Enabled # "absent" THEN data.Enabled ELSE ec.Enabled,
                    !.cred = IF data.ServerURL THEN data.cred ELSE ec.cred]

\* the files an import can carry: an exported EmbyConfig of either shape
ImportFiles ==
  { [hasSources |-> TRUE, Sources |-> ss, ServerURL |-> FALSE, Enabled |-> "absent",
     cred |-> "cred1"] :
       ss \in UNION { [1..n -> SourceConfigs] : n \in 1..MaxImportLen } }
  \cup [hasSources : {FALSE}, Sources : {<<>>}, ServerURL : BOOLEAN,
        Enabled : {"true", "false", "absent"}, cred : Creds]

\* the import: merge, db.saveAdminConfig, setCachedConfig
Import(data) ==
  /\ imports < MaxImports
  /\ imports' = imports + 1
  /\ config' = [config EXCEPT !.EmbyConfig = importEmbyConfig(config.EmbyConfig, data)]
  /\ ret' = NoRet
  /\ UNCHANGED <<detailVars, auxVars, clients, searchVars, constructed, clears, req>>

ImportNext ==
  \/ RegistryNext
  \/ \E data \in ImportFiles : Import(data)

ImportSpec == Init /\ [][ImportNext]_vars

----------------------------------------------------------------------------
(* The entry points that resolve a client: detail router, CMS proxy, playback proxy *)

\* isSpecialSource
isSpecialSource(source) == source = STR_emby \/ StartsWith(source, STR_emby_)

\* a router whose catch returns null instead of rethrowing
getSpecialSourceDetailSwallow(cfg, cl, source) ==
  LET res == getEmbyDetail(cfg, cl, source)
  IN  IF (source = STR_emby \/ StartsWith(source, STR_emby_)) /\ res.outcome = "ok"
        THEN res
        ELSE [outcome |-> "null", key |-> NoKey, client |-> NoClient, clients |-> cl,
              made |-> <<>>]

\* getSpecialSourceDetail: the outcome of getEmbyDetail for an Emby tag, null otherwise
getSpecialSourceDetail(cfg, cl, source) ==
  IF source = STR_emby \/ StartsWith(source, STR_emby_)
    THEN getEmbyDetail(cfg, cl, source)
    ELSE [outcome |-> "null", key |-> NoKey, client |-> NoClient, clients |-> cl,
          made |-> <<>>]

\* handleVideoClick of the private-library page: the source parameter of the play URL
handleVideoClick(sourceType, embyKey, nOptions) ==
  IF sourceType = STR_emby /\ embyKey # NoKey /\ nOptions > 1
    THEN STR_emby \o STR_colon \o embyKey
    ELSE sourceType

\* the source property the private-library page gives its video cards
cardSource(sourceType, embyKey) ==
  IF sourceType = STR_emby /\ embyKey # NoKey THEN STR_emby_ \o embyKey ELSE sourceType

\* the source tags the page writes
SourceTags ==
  {STR_emby}
    \cup {cardSource(STR_emby, k) : k \in Keys}
    \cup {handleVideoClick(STR_emby, k, n) : k \in Keys, n \in 1..MaxSources}

\* config.EmbyConfig?.Sources is present and not empty
hasModernSources(cfg) == cfg.EmbyConfig.hasSources /\ Len(cfg.EmbyConfig.Sources) # 0

\* getEmbyClient of the playback proxy
getEmbyClient(cfg, cl, embyKey) ==
  IF ~hasModernSources(cfg)
    THEN [outcome |-> "NotConfigured", key |-> NoKey, client |-> NoClient, clients |-> cl,
          made |-> <<>>]
    ELSE getClient(cfg, cl, embyKey)

\* the statuses of the backend's answer to the fetch of the stream URL
BackendStatus == {200, 401, 404}

\* videoResponse.ok
IsOk(status) == status >= 200 /\ status <= 299

\* getDetail(source, id): the router, then client.getItem(id) if a client was resolved
GetDetail(source) ==
  /\ req.pc \in {"idle", "done"}
  /\ LET res == getSpecialSourceDetail(config, clients, source)
     IN  /\ clients' = res.clients
         /\ constructed' = noteConstructed(constructed, res.made)
         /\ ret' = [op |-> "getDetail", origin |-> source, outcome |-> res.outcome,
                    key |-> res.key, client |-> res.client]
         /\ req' = [kind |-> "detail", pc |-> "done", arg |-> source, key |-> res.key,
                    fetches |-> IF res.outcome = "ok" THEN 1 ELSE 0,
                    status |-> 0, response |-> 0]
         /\ clears' = IF isSpecialSource(source) /\ hasModernSources(config) THEN 0 ELSE clears
         /\ \E sorted \in sortEpisodes(item.episodes) :
              detail' = IF res.outcome = "ok"
                          THEN embyDetailBody("router", item, sorted)
                          ELSE detailFailure("router", res.outcome)
  /\ UNCHANGED <<item, auxVars, config, searchVars, imports>>

\* the CMS proxy is called with an unsupported ac (400) or a wrong token (200, code 401)
CmsReject(status) ==
  /\ req.pc \in {"idle", "done"}
  /\ req' = [kind |-> "cms", pc |-> "done", arg |-> NoKey, key |-> NoKey, fetches |-> 0,
             status |-> 0, response |-> status]
  /\ UNCHANGED <<detailVars, auxVars, config, clients, searchVars, ret, imports, constructed, clears>>

\* the CMS proxy: the configuration test, getClient(embyKey), then the handler that
\* queries the backend (handleSearch, or handleDetail when ids is given); every outcome
\* is a JSON body sent with status 200
CmsProxy(embyKey) ==
  /\ req.pc \in {"idle", "done"}
  /\ LET res == IF hasModernSources(config)
                  THEN getClient(config, clients, embyKey)
                  ELSE [outcome |-> "NotConfigured", key |-> NoKey, client |-> NoClient,
                        clients |-> clients, made |-> <<>>]
     IN  /\ clients' = res.clients
         /\ constructed' = noteConstructed(constructed, res.made)
         /\ ret' = [op |-> "cms", origin |-> embyKey, outcome |-> res.outcome,
                    key |-> res.key, client |-> res.client]
         /\ req' = [kind |-> "cms", pc |-> "done", arg |-> embyKey, key |-> res.key,
                    fetches |-> IF res.outcome = "ok" THEN 1 ELSE 0,
                    status |-> 0, response |-> 200]
         /\ \E ids \in BOOLEAN, sorted \in sortEpisodes(item.episodes) :
              detail' = IF ~ids
                          THEN NoDetail
                          ELSE IF res.outcome = "ok"
                            THEN cmsHandleDetail(item, sorted)
                            ELSE detailFailure("cms", res.outcome)
  /\ clears' = IF hasModernSources(config) THEN 0 ELSE clears
  /\ UNCHANGED <<item, auxVars, config, searchVars, imports>>

\* the playback proxy is called without a valid token or login (401) or without itemId (400)
PlayReject(status) ==
  /\ req.pc \in {"idle", "done"}
  /\ req' = [kind |-> "play", pc |-> "done", arg |-> NoKey, key |-> NoKey, fetches |-> 0,
             status |-> 0, response |-> status]
  /\ UNCHANGED <<detailVars, auxVars, config, clients, searchVars, ret, imports, constructed, clears>>

\* the playback proxy up to the first fetch: getEmbyClient(embyKey), getStreamUrl
PlayStart(embyKey) ==
  /\ req.pc \in {"idle", "done"}
  /\ LET res == getEmbyClient(config, clients, embyKey)
     IN  /\ clients' = res.clients
         /\ constructed' = noteConstructed(constructed, res.made)
         /\ ret' = [op |-> "play", origin |-> embyKey, outcome |-> res.outcome,
                    key |-> res.key, client |-> res.client]
         /\ req' = IF res.outcome = "ok"
                     THEN [kind |-> "play", pc |-> "fetching", arg |-> embyKey,
                           key |-> res.key, fetches |-> 0, status |-> 0, response |-> 0]
                     ELSE [kind |-> "play", pc |-> "done", arg |-> embyKey,
                           key |-> res.key, fetches |-> 0, status |-> 0, response |-> 500]
  /\ clears' = IF hasModernSources(config) THEN 0 ELSE clears
  /\ UNCHANGED <<detailVars, auxVars, config, searchVars, imports>>

\* the first fetch of the stream URL answers: a 401 sends the handler into its
\* re-authentication branch, anything else is answered to the caller
PlayFetch(status) ==
  /\ req.kind = "play" /\ req.pc = "fetching"
  /\ req' = IF status = 401
              THEN [req EXCEPT !.pc = "reauth", !.fetches = @ + 1, !.status = status]
              ELSE [req EXCEPT !.pc = "done", !.fetches = @ + 1, !.status = status,
                               !.response = IF IsOk(status) THEN status ELSE 500]
  /\ UNCHANGED <<detailVars, auxVars, config, clients, searchVars, ret, imports, constructed, clears>>

\* a 401 branch that tries again for as long as the backend answers 401
PlayReauthAgain(status) ==
  /\ req.kind = "play" /\ req.pc = "reauth"
  /\ LET res == getEmbyClient(config, clearCache(clients), req.arg)
     IN  /\ clients' = res.clients
         /\ constructed' = noteConstructed(<<>>, res.made)
         /\ ret' = [op |-> "play", origin |-> req.arg, outcome |-> res.outcome,
                    key |-> res.key, client |-> res.client]
         /\ req' = IF res.outcome # "ok"
                     THEN [req EXCEPT !.pc = "done", !.key = res.key, !.response = 500]
                     ELSE IF status = 401
                       THEN [req EXCEPT !.key = res.key, !.fetches = @ + 1, !.status = status]
                       ELSE [req EXCEPT !.pc = "done", !.key = res.key, !.fetches = @ + 1,
                                        !.status = status,
                                        !.response = IF IsOk(status) THEN status ELSE 500]
         /\ clears' = IF hasModernSources(config) THEN 0 ELSE IF clears >= 1 THEN 2 ELSE 1
  /\ UNCHANGED <<detailVars, auxVars, config, searchVars, imports>>

\* the 401 branch: embyManager.clearCache(), getEmbyClient(embyKey), getStreamUrl, the
\* second fetch, and the answer to the caller
PlayReauth(status) ==
  /\ req.kind = "play" /\ req.pc = "reauth"
  /\ LET res == getEmbyClient(config, clearCache(clients), req.arg)
     IN  /\ clients' = res.clients
         /\ constructed' = noteConstructed(<<>>, res.made)
         /\ ret' = [op |-> "play", origin |-> req.arg, outcome |-> res.outcome,
                    key |-> res.key, client |-> res.client]
         /\ req' = IF res.outcome # "ok"
                     THEN [req EXCEPT !.pc = "done", !.key = res.key, !.response = 500]
                     ELSE [req EXCEPT !.pc = "done", !.key = res.key, !.fetches = @ + 1,
                                      !.status = status,
                                      !.response = IF IsOk(status) THEN status ELSE 500]
         /\ clears' = IF hasModernSources(config) THEN 0 ELSE IF clears >= 1 THEN 2 ELSE 1
  /\ UNCHANGED <<detailVars, auxVars, config, searchVars, imports>>

\* GET /api/emby/detail?id=..&embyKey=..: getClient, getItem, the episodes of a Series,
\* and the success object
EmbyDetailRoute(embyKey) ==
  /\ req.pc \in {"idle", "done"}
  /\ LET res == getClient(config, clients, embyKey)
     IN  /\ clients' = res.clients
         /\ constructed' = noteConstructed(constructed, res.made)
         /\ ret' = [op |-> "detailRoute", origin |-> embyKey, outcome |-> res.outcome,
                    key |-> res.key, client |-> res.client]
         /\ req' = [kind |-> "detailRoute", pc |-> "done", arg |-> embyKey, key |-> res.key,
                    fetches |-> IF res.outcome = "ok" THEN 1 ELSE 0,
                    status |-> 0, response |-> IF res.outcome = "ok" THEN 200 ELSE 500]
         /\ \E sorted \in sortEpisodes(item.episodes) :
              detail' = IF res.outcome = "ok"
                          THEN embyDetailRouteBody(item, sorted)
                          ELSE detailFailure("api", res.outcome)
  /\ clears' = 0
  /\ UNCHANGED <<item, auxVars, config, searchVars, imports>>

EntryNext ==
  \/ RegistryNext
  \/ \E source \in SourceTags : GetDetail(source)
  \/ \E status \in {400, 401} : CmsReject(status)
  \/ \E k \in Keys \cup {NoKey} : CmsProxy(k)
  \/ \E status \in {400, 401} : PlayReject(status)
  \/ \E k \in Keys \cup {NoKey} : PlayStart(k)
  \/ \E status \in BackendStatus : PlayFetch(status)
  \/ \E status \in BackendStatus : PlayReauth(status)

EntrySpec == Init /\ [][EntryNext]_vars

\* GET /api/emby/views up to its first await: the cache is read; a hit is answered, a
\* miss resolves the client and starts client.getUserViews() (or answers the error of
\* getClient)
ViewsStart(r, embyKey) ==
  /\ viewsReq[r].pc = "idle"
  /\ LET cacheKey == IF embyKey # NoKey THEN embyKey ELSE STR_default
         got == getCachedEmbyViews(cache, viewsCacheKey(cacheKey), now)
         res == getClient(config, clients, embyKey)
     IN  /\ cache' = IF got.value = NoData /\ res.outcome # "ok"
                        THEN viewsCatch(got.cache, viewsCacheKey(cacheKey), now)
                        ELSE got.cache
         /\ cacheRet' = [NoCacheRet EXCEPT !.op = "get", !.args = viewsArgs(cacheKey),
                                           !.key = viewsCacheKey(cacheKey),
                                           !.value = got.value]
         /\ IF got.value # NoData
              THEN UNCHANGED <<viewsReq, clients, constructed, ret, clears>>
              ELSE /\ viewsReq' = [viewsReq EXCEPT ![r] =
                                     [pc |-> IF res.outcome = "ok" THEN "fetching" ELSE "idle",
                                      arg |-> cacheKey, key |-> viewsCacheKey(cacheKey)]]
                   /\ clients' = res.clients
                   /\ constructed' = noteConstructed(constructed, res.made)
                   /\ ret' = [op |-> "views", origin |-> embyKey, outcome |-> res.outcome,
                              key |-> res.key, client |-> res.client]
                   /\ clears' = 0
  /\ UNCHANGED <<detailVars, viewVars, now, written, callers, late, listVars, config, searchVars, imports, req>>

\* client.getUserViews() returns: the answer is cached and sent
ViewsFetched(r, data) ==
  /\ viewsReq[r].pc = "fetching"
  /\ cache' = setCachedEmbyViews(cache, viewsReq[r].key, data, now)
  /\ written' = noteSet(written, viewsReq[r].key, data, now, viewsArgs(viewsReq[r].arg))
  /\ cacheRet' = [NoCacheRet EXCEPT !.op = "set", !.args = viewsArgs(viewsReq[r].arg),
                                    !.key = viewsReq[r].key, !.value = data]
  /\ viewsReq' = [viewsReq EXCEPT ![r] = NoViewsRequest]
  /\ UNCHANGED <<detailVars, viewVars, now, callers, late, listVars, config, clients, searchVars,
                 ret, imports, constructed, clears, req>>

\* client.getUserViews() throws: the catch answers an error with no views
ViewsFailed(r) ==
  /\ viewsReq[r].pc = "fetching"
  /\ cache' = viewsCatch(cache, viewsReq[r].key, now)
  /\ viewsReq' = [viewsReq EXCEPT ![r] = NoViewsRequest]
  /\ UNCHANGED <<detailVars, viewVars, now, cacheRet, written, callers, late, listVars,
                 config, clients, searchVars, ret, imports, constructed, clears, req>>

CacheCalls ==
  \/ GetList(FirstPage)
  \/ \E data \in Data : SetList(FirstPage, data)
  \/ GetViews(STR_default)
  \/ \E data \in Data : SetViews(STR_default, data)
  \/ ClearEmbyCache
  \/ Stats

CacheNext == Tick \/ CacheCalls

ViewsNext ==
  \/ Day
  \/ CacheCalls
  \/ \E r \in 1..MaxRequests : ViewsStart(r, NoKey)
  \/ \E r \in 1..MaxRequests, data \in Data : ViewsFetched(r, data)
  \/ \E r \in 1..MaxRequests : ViewsFailed(r)

\* getOpenListDetail up to the listing loop: the configuration and the folder's entry
\* in video.metainfo are tested
OpenListStart ==
  /\ listing.pc \in {"idle", "done", "failed"}
  /\ IF fileIndex.openlist
       THEN /\ listing' = [pc |-> "loop", page |-> 1, files |-> <<>>,
                               hit |-> videoInfo.cached, videoInfo |-> videoInfo,
                               parses |-> 0]
            /\ detail' = NoDetail
       ELSE /\ listing' = [NoListing EXCEPT !.pc = "failed"]
            /\ detail' = detailFailure("openlist", "NotConfigured")
  /\ UNCHANGED <<item, viewVars, cacheVars, callers, late, fileIndex, xiaoyaReq, config, clients,
                 searchVars, ret, imports, constructed, clears, req>>

\* the head of the loop: client.listDirectory(folderPath, currentPage, pageSize) is called
ListRequest ==
  /\ listing.pc = "loop"
  /\ listing' = [listing EXCEPT !.pc = "awaiting"]
  /\ UNCHANGED <<detailVars, viewVars, cacheVars, callers, late, fileIndex, xiaoyaReq, config, clients,
                 searchVars, ret, imports, constructed, clears, req>>

\* listDirectory rejects, answers with a code other than 200, or answers with a content
\* that cannot be spread: the call ends with an error
ListFails ==
  /\ listing.pc = "awaiting"
  /\ listing' = [listing EXCEPT !.pc = "failed"]
  /\ detail' = detailFailure("openlist", "ListFailed")
  /\ UNCHANGED <<item, viewVars, cacheVars, callers, late, fileIndex, xiaoyaReq, config, clients,
                 searchVars, ret, imports, constructed, clears, req>>

\* listDirectory answers with code 200: the page is collected, and the loop ends when
\* the collected files reach the declared total
ListPage(total, content) ==
  /\ listing.pc = "awaiting"
  /\ LET allFiles == listing.files \o content
     IN  IF Len(allFiles) >= total
           THEN LET info == IF listing.hit THEN listing.videoInfo
                            ELSE parseFolder(sortByName(videoFilesOf(allFiles)))
                IN  /\ listing' = [listing EXCEPT !.pc = "done", !.files = allFiles,
                                                  !.videoInfo = info,
                                                  !.parses = parseCalls(allFiles, listing.hit)]
                    /\ videoInfo' = IF listing.hit THEN videoInfo ELSE info
                    /\ detail' = openListDetailBody(allFiles, listing.hit, info)
           ELSE /\ listing' = [listing EXCEPT !.pc = "loop",
                                              !.page = IF listing.page < MaxPages
                                                         THEN listing.page + 1
                                                         ELSE listing.page,
                                              !.files = allFiles]
                /\ UNCHANGED <<detail, videoInfo>>
  /\ UNCHANGED <<item, library, cacheVars, callers, late, fileIndex, xiaoyaReq, config, clients,
                 searchVars, ret, imports, constructed, clears, req>>

\* the folder's entry leaves the cache of parse results. A view reads the cache once,
\* before its first listing call, so an entry that leaves during the loop is taken to
\* leave after it
VideoInfoExpires ==
  /\ videoInfo.cached
  /\ listing.pc \notin {"loop", "awaiting"}
  /\ videoInfo' = NoVideoInfo
  /\ UNCHANGED <<detailVars, library, cacheVars, callers, late, listVars, config, clients,
                 searchVars, ret, imports, constructed, clears, req>>

\* getDetail('xiaoya', id) up to its first call to the backend
XiaoyaStart(id) ==
  /\ xiaoyaReq.pc # "awaiting"
  /\ LET check == xiaoyaCheck(fileIndex.xiaoya, id)
     IN  /\ xiaoyaReq' = [pc |-> IF check = "ok" THEN "awaiting" ELSE "done",
                          decoded |-> IF fileIndex.xiaoya
                                        THEN [done |-> TRUE,
                                              threw |-> base58Decode(id).threw,
                                              path |-> base58Decode(id).path]
                                        ELSE NotDecoded,
                          outcome |-> IF check = "ok" THEN "none" ELSE check,
                          calls |-> IF check = "ok" THEN 1 ELSE 0]
         /\ detail' = IF check = "ok" THEN NoDetail ELSE detailFailure("xiaoya", check)
  /\ UNCHANGED <<item, viewVars, cacheVars, callers, late, fileIndex, listing, config, clients,
                 searchVars, ret, imports, constructed, clears, req>>

\* getXiaoyaMetadata throws, or it returns and getXiaoyaEpisodes returns n episodes
XiaoyaReturn(backendOk, n) ==
  /\ xiaoyaReq.pc = "awaiting"
  /\ xiaoyaReq' = [xiaoyaReq EXCEPT !.pc = "done",
                                    !.outcome = IF backendOk THEN "ok" ELSE "BackendError",
                                    !.calls = IF backendOk THEN 2 ELSE 1]
  /\ detail' = IF backendOk
                 THEN xiaoyaDetailBody(XiaoyaEpisodes(n))
                 ELSE detailFailure("xiaoya", "BackendError")
  /\ UNCHANGED <<item, viewVars, cacheVars, callers, late, fileIndex, listing, config, clients,
                 searchVars, ret, imports, constructed, clears, req>>

ListingNext ==
  \/ OpenListStart
  \/ ListRequest
  \/ ListFails
  \/ \E total \in Totals : \E content \in Pages(listing.files) :
       ListPage(total, content)
  \/ VideoInfoExpires

\* one enabled instance, and every item the backend can hold under the requested id
DetailConfig == [EmbyConfig |-> CHOOSE ec \in ModernConfigs(1) : ec.Sources[1].enabled]

DetailInit ==
  /\ config = DetailConfig
  /\ item \in Items
  /\ fileIndex = NoFileIndex
  /\ Quiescent

DetailNext ==
  \/ \E source \in SourceTags : GetDetail(source)
  \/ \E k \in Keys \cup {NoKey} : CmsProxy(k)
  \/ \E k \in Keys \cup {NoKey} : EmbyDetailRoute(k)

DetailSpec == DetailInit /\ [][DetailNext]_vars

\* a deployment has one kind of private library: an Emby instance, an OpenList folder
\* or a xiaoya directory
RouterInit ==
  /\ \/ config = DetailConfig /\ item \in Items /\ fileIndex = NoFileIndex
     \/ /\ config = [EmbyConfig |-> NoEmbyConfig]
        /\ item = DefaultItem
        /\ fileIndex \in {[openlist |-> TRUE, xiaoya |-> FALSE],
                          [openlist |-> FALSE, xiaoya |-> TRUE]}
  /\ Quiescent

\* getDetail(source, id) for the three kinds of private library: the page of a
\* deployment asks for details of the kind of library the deployment has
RouterNext ==
  \/ config # [EmbyConfig |-> NoEmbyConfig] /\ GetDetail(STR_emby)
  \/ fileIndex.openlist /\ ListingNext
  \/ fileIndex.xiaoya /\ \E id \in XiaoyaIds : XiaoyaStart(id)
  \/ \E backendOk \in BOOLEAN, n \in 0..MaxEpisodes : XiaoyaReturn(backendOk, n)

RouterSpec == RouterInit /\ [][RouterNext]_vars

\* a folder the file-index backend is configured for
ListingInit ==
  /\ config = DetailConfig
  /\ item = DefaultItem
  /\ fileIndex \in [openlist : BOOLEAN, xiaoya : {FALSE}]
  /\ Quiescent

\* the call to the backend returns, and the loop goes on as long as it can
ListingSpec ==
  /\ ListingInit /\ [][ListingNext]_vars
  /\ WF_vars(ListRequest)
  /\ WF_vars(ListFails \/ \E total \in Totals :
                             \E content \in Pages(listing.files) :
                               ListPage(total, content))

----------------------------------------------------------------------------
(* Properties *)

Range(seq) == {seq[i] : i \in 1..Len(seq)}

Values(tasks) == Flat([i \in 1..Len(tasks) |-> tasks[i].value])

\* the lists of every task of the request, Emby instances first, in enumeration order
AllValues == Values(embyTask) \o Values(apiTask)

Blacklisted(r) == \E w \in yellowWords : Includes(r.type_name, w)

\* the results the content policy lets through
Permitted(rs, disabled) == {r \in Range(rs) : disabled \/ ~Blacklisted(r)}

\* the step in which the handler builds its response
Responding == pc = "running" /\ pc' = "done"


\* the m-th smallest element of a set of numbers
Nth(S, m) == CHOOSE k \in S : Cardinality({x \in S : x < k}) = m - 1

\* C1: the response to a non-empty query contains the results of every Emby task
\* that has completed, and (the filter aside) those of every generic API site.
C1_EmbyResultsInResponse ==
  [][Responding =>
       /\ \A i \in 1..Len(embyTask) :
            Range(embyTask[i].value) \subseteq Range(response'.results)
       /\ \A j \in 1..Len(apiTask) :
            Permitted(apiTask[j].value, filterOff') \subseteq Range(response'.results)]_vars

\* C2: when the task of a backend has thrown, the search still answers 200 with
\* exactly the results of the other backends' tasks (those the content policy lets
\* through).
C2_ThrowingTaskIsolated ==
  [][(Responding /\ \E j \in 1..Len(apiTask) : apiTask[j].how = "threw") =>
       /\ response'.status = 200
       /\ Range(response'.results) = Permitted(AllValues, filterOff')]_vars

\* C3: a click on a result that the Emby task of instance k produced resolves the
\* client of instance k.
C3_DetailReachesProducer ==
  (ret.op = "detail" /\ config.EmbyConfig.hasSources) =>
     (ret.outcome = "ok" /\ ret.client.key = ret.origin)

\* C4: with one enabled instance every Emby result is tagged 'emby'; with two or
\* more, every result is tagged 'emby_<key>' with the key of the instance whose
\* client produced it, and none carries the bare tag.
C4_SourceTagCollapse ==
  \A i \in 1..Len(embyTask) : \A r \in 1..Len(embyTask[i].value) :
    LET n == Len(getEnabledSources(config))
        tag == embyTask[i].value[r].source
    IN  /\ n = 1 => tag = STR_emby
        /\ n >= 2 => (tag = STR_emby_ \o embySources[i].client.key /\ tag # STR_emby)

C4_Witness ==
  /\ Len(getEnabledSources(config)) >= 2
  /\ \A i \in 1..Len(embyTask) : Len(embyTask[i].value) >= 1
  /\ Len(embyTask) >= 2

\* C5: a request whose query is missing or empty is answered 200 with no results and
\* cache headers, and starts nothing: no backend call, no client, no task.
C5_EmptyQueryShortCircuit ==
  (~query.present \/ Len(query.text) = 0) =>
     /\ calls = 0
     /\ DOMAIN clients = {}
     /\ Len(embyTask) = 0 /\ Len(apiTask) = 0
     /\ pc # "running"
     /\ (pc = "done" /\ response.status # 401) =>
          response = [status |-> 200, results |-> <<>>, cacheable |-> TRUE]

C5_Witness ==
  pc = "done" /\ query.present /\ Len(query.text) = 0 /\ response.status = 200

\* C6: a task whose timer fired contributes the empty list, and the search still
\* answers 200 with the results of the other tasks.
C6_TimedOutTaskIsolated ==
  [][(Responding /\ \E j \in 1..Len(apiTask) : apiTask[j].how = "timeout") =>
       /\ \A j \in 1..Len(apiTask) : apiTask[j].how = "timeout" => apiTask[j].value = <<>>
       /\ response'.status = 200
       /\ Permitted(AllValues, filterOff') \subseteq Range(response'.results)]_vars

\* C7: every search with a non-empty query is eventually answered, whatever the
\* backends do: a task that never completes is settled by its own timer.
C7_SearchResponds == (pc = "running") ~> (pc = "done")

C7_Witness ==
  /\ pc = "done"
  /\ response.status = 200
  /\ \E j \in 1..Len(apiTask) : apiTask[j].how = "timeout"

\* C8: with the filter off, the response lists each task's results contiguously, in
\* the order the tasks were enumerated, whatever the order they completed in.
C8_FlattenInTaskOrder ==
  [][(Responding /\ filterOff') => response'.results = AllValues]_vars

\* C9: the answer to a non-empty query is the flattened list of the awaited tasks
\* with exactly the blacklisted results removed (none when the filter is disabled),
\* the others unmodified and in their relative order.
C9_FilterIsSubsequence ==
  (pc = "done" /\ response.status = 200 /\ Len(query.text) > 0) =>
     LET flattened == Values(awaited)
         kept == {k \in 1..Len(flattened) :
                    filterOff \/ ~Blacklisted(flattened[k])}
     IN  /\ Len(response.results) = Cardinality(kept)
         /\ \A m \in 1..Len(response.results) :
              response.results[m] = flattened[Nth(kept, m)]

C9_Witness ==
  /\ pc = "done"
  /\ ~filterOff
  /\ Len(Values(awaited)) = 2
  /\ Blacklisted(Values(awaited)[1])
  /\ ~Blacklisted(Values(awaited)[2])
  /\ response.results = <<Values(awaited)[2]>>

\* C10: a client that getClient returns was built from the configuration the
\* instance has now: after the instance was altered, disabled or removed, the
\* client built from its old configuration is not returned.
C10_NoStaleHandle ==
  (ret.op = "getClient" /\ ret.outcome = "ok") =>
     LET sources == getSources(config)
         idx == indexOfKey(sources, ret.key)
     IN  idx # 0 /\ sources[idx].enabled /\ ret.client = sources[idx]

\* C11: getClient without a key resolves the instance marked isDefault if there is
\* one; otherwise the first enabled instance of the configured list, whatever
\* disabled instances stand before it.
C11_DefaultResolution ==
  (ret.op = "getClient" /\ ret.origin = NoKey /\ Len(getSources(config)) > 0) =>
     LET sources == getSources(config)
         d == indexOfDefault(sources)
         enabled == getEnabledSources(config)
     IN  IF d # 0
           THEN ret.key = sources[d].key
           ELSE Len(enabled) > 0 => (ret.outcome = "ok" /\ ret.key = enabled[1].key)

\* C12: getClient fails with NotConfigured when no instance is configured, with
\* NotFound when the key given matches no configured instance, with Disabled when
\* the instance it resolves is not enabled; a failing call builds no client and
\* leaves the cache as it was.
C12_ResolutionErrors ==
  [][ret'.op = "getClient" =>
       LET sources == getSources(config')
           idx == indexOfKey(sources, ret'.key)
       IN  /\ Len(sources) = 0 => ret'.outcome = "NotConfigured"
           /\ (Len(sources) > 0 /\ ret'.origin # NoKey /\ indexOfKey(sources, ret'.origin) = 0)
                 => ret'.outcome = "NotFound"
           /\ (Len(sources) > 0 /\ idx # 0 /\ ~sources[idx].enabled)
                 => ret'.outcome = "Disabled"
           /\ ret'.outcome # "ok" =>
                 (ret'.client = NoClient /\ clients' = clients /\ constructed' = constructed)]_vars

\* C13: as long as the cache is not cleared, at most one client is built per key, a
\* cached client is never replaced, and a successful getClient returns the client
\* cached for the key, whether getClient or getAllClients put it there.
C13_OneHandlePerKey ==
  [][/\ \A k \in DOMAIN constructed' : constructed'[k] <= 1
     /\ \A k \in DOMAIN clients : k \in DOMAIN clients' => clients'[k] = clients[k]
     /\ (ret'.op = "getClient" /\ ret'.outcome = "ok") =>
          (ret'.key \in DOMAIN clients' /\ ret'.client = clients'[ret'.key])]_vars

\* getClient has succeeded while the cache holds the clients of two instances, each
\* built once
C13_Witness ==
  /\ ret.op = "getClient" /\ ret.outcome = "ok"
  /\ Cardinality(DOMAIN clients) >= 2
  /\ \A k \in DOMAIN clients : count(constructed, k) = 1

\* C14: in the playback proxy a 401 from the backend leads to the clearing of the
\* cache, a new resolution of the client and one more fetch; no request fetches more
\* than twice, and a request whose second fetch is answered 401 ends in the error
\* response.
C14_SingleRetryOn401 ==
  [][/\ req'.kind = "play" => req'.fetches <= 2
     /\ (req.kind = "play" /\ req.pc = "fetching" /\ req' # req /\ req'.status = 401)
          => req'.pc = "reauth"
     /\ (req.kind = "play" /\ req.pc = "reauth" /\ req' # req) =>
          /\ req'.pc = "done"
          /\ ret'.op = "play"
          /\ DOMAIN clients' \subseteq {req'.key}
          /\ ret'.outcome = "ok" =>
               /\ req'.fetches = 2
               /\ req'.key \in DOMAIN clients'
               /\ count(constructed', req'.key) = 1
          /\ req'.status = 401 => req'.response = 500]_vars

\* the retry was answered 401 as well
C14_Witness ==
  /\ req.kind = "play" /\ req.pc = "done"
  /\ req.fetches = 2
  /\ req.status = 401
  /\ req.response = 500

\* C15: the invalidation that follows a 401 observed for instance k removes the
\* client cached for k only: the clients cached for the other keys stay in place.
C15_InvalidateOnlyKey ==
  [][(req.kind = "play" /\ req.pc = "reauth" /\ req' # req) =>
       \A k \in DOMAIN clients \ {req.key} :
          k \in DOMAIN clients' /\ clients'[k] = clients[k]]_vars

\* C16: a clearCache that follows a clearCache changes nothing and raises no error,
\* and the getClient that follows one clearCache or two builds a new client from
\* the configuration.
C16_ClearCacheIdempotent ==
  [][/\ (clears >= 1 /\ clears' = 2 /\ ret'.op = "clearCache") =>
          /\ ret'.outcome = "ok"
          /\ clients' = clients
          /\ constructed' = constructed
          /\ config' = config
     /\ (clears >= 1 /\ clears' = 0 /\ ret'.op = "getClient" /\ ret'.outcome = "ok") =>
          /\ ret'.key \notin DOMAIN clients
          /\ count(constructed', ret'.key) = 1
          /\ clients'[ret'.key] = ret'.client
          /\ ret'.client \in Range(getSources(config'))]_vars

\* clearCache has been called twice in a row
C16_Witness ==
  /\ clears = 2
  /\ ret.op = "clearCache"
  /\ DOMAIN clients = {}

\* C17: the instances of a legacy configuration are one instance with key 'default',
\* isDefault true, enabled as the legacy Enabled flag says (false when absent) and the
\* legacy connection fields; those of a modern configuration are its Sources list as
\* it is; with neither shape there is none. migrateEmbyConfig gives the same list.
C17_ListInstances ==
  LET ec == config.EmbyConfig
      sources == getSources(config)
  IN  /\ ec.hasSources =>
           (sources = ec.Sources /\ migrateEmbyConfig(config) = config)
      /\ (~ec.hasSources /\ ec.ServerURL) =>
           /\ sources = <<[key |-> STR_default, enabled |-> (ec.Enabled = "true"),
                           isDefault |-> TRUE, cred |-> ec.cred]>>
           /\ migrateEmbyConfig(config).EmbyConfig.Sources = sources
      /\ (~ec.hasSources /\ ~ec.ServerURL) =>
           (sources = <<>> /\ migrateEmbyConfig(config) = config)

\* getClient has read a legacy configuration without an Enabled flag
C17_Witness ==
  /\ ~config.EmbyConfig.hasSources /\ config.EmbyConfig.ServerURL
  /\ config.EmbyConfig.Enabled = "absent"
  /\ ret.op = "getClient" /\ ret.key = STR_default /\ ret.outcome = "Disabled"

\* C18: with an enabled legacy configuration, the detail router, the CMS proxy and
\* the playback proxy, asked for the default instance, resolve the client of the
\* legacy instance.
C18_LegacyReachable ==
  LET ec == config.EmbyConfig
  IN  (/\ ~ec.hasSources /\ ec.ServerURL /\ ec.Enabled = "true"
       /\ \/ ret.op = "getDetail" /\ ret.origin = STR_emby
          \/ ret.op \in {"cms", "play"} /\ ret.origin = NoKey)
        => (ret.outcome = "ok" /\ ret.key = STR_default)

\* the tag a source tag selects an instance with: what follows 'emby_' or 'emby:'
tagKey(tag) == Substring(tag, 5)

\* C19: the detail router resolves the instance <key> for the tags 'emby_<key>' and
\* 'emby:<key>', and the instance getClient takes for default for the bare tag 'emby'.
C19_BothDelimiters ==
  (ret.op = "getDetail" /\ hasModernSources(config)) =>
     /\ ret.outcome # "null"
     /\ ret.key = IF ret.origin = STR_emby
                    THEN defaultKey(getSources(config))
                    ELSE tagKey(ret.origin)

\* C20: when no instance is configured the detail router fails with NotConfigured
\* for an Emby tag: no client is resolved, no backend is called, nothing is returned.
C20_DetailNotConfigured ==
  (/\ ret.op = "getDetail" /\ req.kind = "detail"
   /\ isSpecialSource(ret.origin)
   /\ Len(getSources(config)) = 0) =>
     /\ ret.outcome = "NotConfigured"
     /\ ret.client = NoClient
     /\ req.fetches = 0
     /\ DOMAIN clients = {}

\* the router was asked for an instance by key while the Sources list is empty
C20_Witness ==
  /\ config.EmbyConfig.hasSources /\ Len(config.EmbyConfig.Sources) = 0
  /\ ret.op = "getDetail" /\ req.kind = "detail"
  /\ StartsWith(ret.origin, STR_emby_)
  /\ ret.outcome = "NotConfigured"

\* C21: when the backend's item is neither a Movie nor a Series, every detail entry
\* point that resolved a client fails with UnsupportedMediaType; none of them hands
\* back a success object with an empty episode list.
C21_UnsupportedTypeFails ==
  (/\ detail.entry # "none"
   /\ ret.outcome = "ok"
   /\ item.Type \notin {"Movie", "Series"}) =>
     /\ detail.outcome = "UnsupportedMediaType"
     /\ ~(detail.outcome = "ok" /\ detail.episodes = <<>>)

\* the episodes of the item in the order the router returned their stream URLs
routedEpisodes == [i \in 1..Len(detail.episodes) |-> item.episodes[detail.episodes[i][2]]]

\* C27: the episode list the router returns for a series is a permutation of the
\* backend's episodes, non-decreasing in (season, episode) with a missing number
\* counted as 0.
C27_EpisodeOrder ==
  (detail.entry = "router" /\ detail.outcome = "ok" /\ item.Type = "Series") =>
     /\ Len(detail.episodes) = Len(item.episodes)
     /\ {detail.episodes[i][2] : i \in 1..Len(detail.episodes)} = 1..Len(item.episodes)
     /\ \A i, j \in 1..Len(detail.episodes) :
          i < j => compareEpisodesAsZero(routedEpisodes[i], routedEpisodes[j]) <= 0

\* the cache starts empty in a deployment with one enabled instance
CacheInit ==
  /\ config = DetailConfig
  /\ item = DefaultItem
  /\ fileIndex = NoFileIndex
  /\ Quiescent

\* the search request with the underlying calls completing after their timers
LateNext ==
  \/ Next
  \/ \E j \in 1..Len(apiTask), n \in 1..MaxItems : \E y \in 0..n : ApiLateReturn(j, n, y)

LateSpec == CacheInit /\ [][LateNext]_vars

ConcurrentSpec == Init /\ [][ConcurrentNext]_vars

CacheSpec == CacheInit /\ [][CacheNext]_vars

ViewsSpec == CacheInit /\ [][ViewsNext]_vars

\* the views endpoint as the only user of the views cache: requests for the default
\* instance and for an instance that is not configured, the admin's clear, the clock
EndpointNext ==
  \/ Day
  \/ ClearEmbyCache
  \/ \E r \in 1..MaxRequests, k \in {NoKey, Key(MaxSources)} : ViewsStart(r, k)
  \/ \E r \in 1..MaxRequests, data \in Data : ViewsFetched(r, data)
  \/ \E r \in 1..MaxRequests : ViewsFailed(r)

EndpointSpec == CacheInit /\ [][EndpointNext]_vars

----------------------------------------------------------------------------
(* The private-library page: the reset effects and the fetchVideos effect *)

\* the reset effects: they run when sourceType, embyKey, selectedView or the sort changed
resetEffects(lib) ==
  [lib EXCEPT !.page = 1, !.videos = <<>>, !.hasMore = TRUE, !.error = FALSE,
              !.loading = FALSE, !.loadingMore = FALSE, !.isFetching = FALSE]

\* abortControllerRef.current.abort(): the request created last, if any, is aborted
abortCurrent(requests) ==
  IF requests = <<>> THEN requests
  ELSE [requests EXCEPT ![Len(requests)] = [@ EXCEPT !.aborted = TRUE]]

\* fetchVideos up to its await, with the deps and the page of the render it closes over:
\* abort the previous request, return early for emby without a key, else create the
\* controller, raise the loading flag of the page and start the fetch
fetchVideosStart(lib, deps, page) ==
  LET aborted == [lib EXCEPT !.requests = abortCurrent(lib.requests)]
  IN  IF deps = NoEmbyKey
        THEN [aborted EXCEPT !.loading = FALSE]
        ELSE [aborted EXCEPT
                !.requests = Append(@, [deps |-> deps, page |-> page, aborted |-> FALSE,
                                        pc |-> "pending"]),
                !.isFetching = TRUE,
                !.loading = IF page = 1 THEN TRUE ELSE @,
                !.loadingMore = IF page = 1 THEN @ ELSE TRUE,
                !.error = FALSE]

\* the finally of fetchVideos without its test of signal.aborted
fetchVideosFinallyUnguarded(lib, r) ==
  IF r.page = 1
    THEN [lib EXCEPT !.loading = FALSE, !.isFetching = FALSE]
    ELSE [lib EXCEPT !.loadingMore = FALSE, !.isFetching = FALSE]

\* the finally of fetchVideos
fetchVideosFinally(lib, r) ==
  IF ~r.aborted
    THEN IF r.page = 1
           THEN [lib EXCEPT !.loading = FALSE, !.isFetching = FALSE]
           ELSE [lib EXCEPT !.loadingMore = FALSE, !.isFetching = FALSE]
    ELSE lib

\* fetchVideos from its await on, for the request r: the answer with a list (ok, with
\* whether more pages follow), the answer with data.error, a failure that is thrown,
\* the AbortError of an aborted fetch; a list is named by the request it answers
fetchVideosSettle(lib, r, outcome, more) ==
  LET isInitial == r.page = 1
      newVideos == <<r.deps, r.page>>
      tried ==
        CASE outcome = "ok" ->
               [lib EXCEPT !.videos = IF isInitial THEN <<newVideos>> ELSE Append(@, newVideos),
                           !.hasMore = more]
          [] outcome \in {"dataError", "thrown"} ->
               [lib EXCEPT !.error = TRUE, !.videos = IF isInitial THEN <<>> ELSE @]
          [] OTHER -> lib
  IN  fetchVideosFinally(tried, r)

\* the user picks another source, instance, view or sort order (or the page learns its
\* embyKey): the state changes, the effects have not run yet
SelectDeps(d) ==
  /\ d # library.deps
  /\ library' = [library EXCEPT !.deps = d]
  /\ UNCHANGED <<detailVars, videoInfo, cacheVars, callers, late, listVars, config, clients,
                 searchVars, ret, imports, constructed, clears, req>>

\* the IntersectionObserver callback: the next page is asked for
LoadMore ==
  /\ library.hasMore /\ ~library.loadingMore /\ ~library.loading /\ ~library.isFetching
  /\ library.page < MaxLibraryPage
  /\ library' = [library EXCEPT !.page = @ + 1]
  /\ UNCHANGED <<detailVars, videoInfo, cacheVars, callers, late, listVars, config, clients,
                 searchVars, ret, imports, constructed, clears, req>>

\* the effects of a render whose dependencies differ from those of the last run: the
\* cleanup of the fetch effect aborts, the reset effects run if something other than
\* the page changed, then fetchVideos runs with the deps and the page of that render
RunEffects ==
  /\ library.ran # <<library.deps, library.page>>
  /\ Len(library.requests) < MaxLibraryRequests
  /\ LET cleaned == [library EXCEPT !.requests = abortCurrent(@)]
         reset == IF library.ran = <<>> \/ library.ran[1] # library.deps
                    THEN resetEffects(cleaned) ELSE cleaned
         started == fetchVideosStart(reset, library.deps, library.page)
     IN  library' = [started EXCEPT !.ran = <<library.deps, library.page>>]
  /\ UNCHANGED <<detailVars, videoInfo, cacheVars, callers, late, listVars, config, clients,
                 searchVars, ret, imports, constructed, clears, req>>

\* the fetch of a request that was not aborted settles: its answer is applied
Respond(i, outcome, more) ==
  /\ i \in 1..Len(library.requests)
  /\ library.requests[i].pc = "pending" /\ ~library.requests[i].aborted
  /\ library' = [fetchVideosSettle(library, library.requests[i], outcome, more)
                   EXCEPT !.requests[i].pc = "settled"]
  /\ UNCHANGED <<detailVars, videoInfo, cacheVars, callers, late, listVars, config, clients,
                 searchVars, ret, imports, constructed, clears, req>>

\* the fetch (or the read of the body) of an aborted request rejects with AbortError
AbortedSettles(i) ==
  /\ i \in 1..Len(library.requests)
  /\ library.requests[i].pc = "pending" /\ library.requests[i].aborted
  /\ library' = [fetchVideosSettle(library, library.requests[i], "AbortError", FALSE)
                   EXCEPT !.requests[i].pc = "settled"]
  /\ UNCHANGED <<detailVars, videoInfo, cacheVars, callers, late, listVars, config, clients,
                 searchVars, ret, imports, constructed, clears, req>>

LibraryNext ==
  \/ \E d \in LibraryDeps : SelectDeps(d)
  \/ LoadMore
  \/ RunEffects
  \/ \E i \in 1..MaxLibraryRequests, outcome \in {"ok", "dataError", "thrown"},
        more \in BOOLEAN : Respond(i, outcome, more)
  \/ \E i \in 1..MaxLibraryRequests : AbortedSettles(i)

LibrarySpec == CacheInit /\ [][LibraryNext]_vars

\* callers of the cache module: the list route is called with the page, the page size,
\* the parentId and the embyKey of the request, which are strings the client chooses
KeyCalls ==
  {FirstPage,
   listArgs(<<"1">>, PageSize, Tail(STR_list) \o <<"2">> \o STR_colon \o PageSize, Key(1)),
   listArgs(<<"2">>, PageSize, <<>>, Key(1) \o STR_list \o <<"1">> \o STR_colon \o PageSize),
   listArgs(<<"1">>, PageSize, <<>>, <<"v", "i", "e", "w", "s">>)}

KeyViews == {Tail(STR_list) \o <<"1">> \o STR_colon \o PageSize}

KeyNext ==
  \/ \E args \in KeyCalls : GetList(args)
  \/ \E args \in KeyCalls, data \in Data : SetList(args, data)
  \/ \E embyKey \in KeyViews : GetViews(embyKey)
  \/ \E embyKey \in KeyViews, data \in Data : SetViews(embyKey, data)

KeySpec == CacheInit /\ [][KeyNext]_vars

\* the TTL the setter of a cache key uses
ttlOf(key) == IF key \in ListKeys THEN EMBY_CACHE_TTL_MS ELSE EMBY_VIEWS_CACHE_TTL_MS

\* C23: for the list cache and the views cache alike, a get on a key whose last set
\* was at t0 (and was not cleared since) returns the data of that set before t0 + TTL
\* and absent after it; at exactly t0 + TTL both getters return absent.
C23_Expiry ==
  [][(/\ now' = now
      /\ cacheRet'.op = "get"
      /\ cacheRet'.key \in DOMAIN written
      /\ written[cacheRet'.key].live) =>
        LET w == written[cacheRet'.key]
            T == ttlOf(cacheRet'.key)
        IN  /\ now < w.at + T => cacheRet'.value = w.data
            /\ now > w.at + T => cacheRet'.value = NoData
            /\ now = w.at + T => cacheRet'.value = NoData]_vars

\* a get on the views key at the very instant its entry expires, and one on the list key
C23_Witness ==
  /\ cacheRet.op = "get" /\ cacheRet.key \in ViewsKeys /\ cacheRet.value = NoData
  /\ cacheRet.key \in DOMAIN written
  /\ written[cacheRet.key].live
  /\ now = written[cacheRet.key].at + EMBY_VIEWS_CACHE_TTL_MS
  /\ \E k \in ListKeys : k \in DOMAIN written /\ now > written[k].at + EMBY_CACHE_TTL_MS

\* C24: clear() returns the number of entries the cache held when it was called,
\* the expired ones that were never read included; from then on stats() reports size 0
\* and no keys, and a get returns absent, until a key is set again.
C24_ClearCountsAll ==
  /\ [][(now' = now /\ cacheRet'.op = "clear") =>
          /\ cacheRet'.size = Cardinality(DOMAIN cache)
          /\ cacheRet'.size >= cacheRet'.expired]_vars
  /\ [](/\ (cacheRet.op = "stats" /\ \A k \in DOMAIN written : ~written[k].live) =>
             cacheRet.size = 0 /\ cacheRet.keys = {}
        /\ (/\ cacheRet.op = "get"
            /\ (cacheRet.key \notin DOMAIN written \/ ~written[cacheRet.key].live)) =>
             cacheRet.value = NoData)

\* a clear that evicted an entry that had expired without having been read
C24_Witness == cacheRet.op = "clear" /\ cacheRet.size >= 2 /\ cacheRet.expired >= 1

\* C25: however clear, get, set and the steps of concurrent views requests interleave,
\* a get returns absent or a value that an earlier set wrote under that very key, and
\* stats reports as its size the number of keys it lists.
C25_NoTornState ==
  /\ (cacheRet.op = "get" /\ cacheRet.value # NoData) =>
        /\ cacheRet.key \in DOMAIN written
        /\ cacheRet.value \in written[cacheRet.key].all
  /\ cacheRet.op = "stats" => cacheRet.size = Cardinality(cacheRet.keys)

\* a get hits while a views request that missed is still waiting for the backend, after
\* a clear
C25_Witness ==
  /\ cacheRet.op = "get" /\ cacheRet.value # NoData
  /\ \E r \in 1..MaxRequests : viewsReq[r].pc = "fetching" /\ viewsReq[r].key = cacheRet.key
  /\ \E k \in DOMAIN written : ~written[k].live

\* C28: when two concurrent calls of getClient / getAllClients have both completed,
\* every key both resolved names one and the same handle for both, and that handle is
\* the one the cache holds; no second handle was built for the key.
C28_OneHandleUnderRace ==
  \A c, d \in 1..MaxRequests :
    (callers[c].pc = "done" /\ callers[d].pc = "done") =>
      \A k \in DOMAIN callers[c].got \cap DOMAIN callers[d].got :
        /\ callers[c].got[k] = callers[d].got[k]
        /\ has(clients, k)
        /\ count(constructed, k) = 1

\* both calls were awaiting getSources() for a key that was not cached; both completed
C28_Witness ==
  /\ callers[1].pc = "done" /\ callers[1].op = "getClient"
  /\ callers[2].pc = "done" /\ callers[2].op = "getAllClients"
  /\ DOMAIN callers[1].got \cap DOMAIN callers[2].got # {}
  /\ Cardinality(DOMAIN clients) = MaxSources

\* C29: what a backend call resolves to after the timer of its task has fired is in no
\* search response: every result of the response comes from a task that settled with
\* its own value, and a task whose timer fired contributes nothing.
C29_LateResultDiscarded ==
  pc = "done" =>
    \A j \in DOMAIN late :
      /\ apiTask[j].how = "timeout" /\ apiTask[j].value = <<>>
      /\ \A r \in Range(response.results) : r.source # apiSites[j]

\* the call of a site resolved with results after its timer fired, before the response
\* was assembled
C29_Witness ==
  /\ pc = "done" /\ response.status = 200
  /\ \E j \in DOMAIN late : late[j].value # <<>> /\ late[j].pc = "running"

\* C26: when the id of a xiaoya directory cannot be decoded, or decodes to an empty or
\* whitespace-only path, getDetail fails with InvalidIdentifier and has made no call
\* to the backend, neither for the metadata nor for the episodes.
C26_InvalidIdentifier ==
  (/\ xiaoyaReq.decoded.done
   /\ \/ xiaoyaReq.decoded.threw
      \/ \A i \in 1..Len(xiaoyaReq.decoded.path) : xiaoyaReq.decoded.path[i] \in Whitespace) =>
     /\ xiaoyaReq.outcome = "InvalidIdentifier"
     /\ xiaoyaReq.calls = 0
     /\ detail.entry = "xiaoya" => detail.outcome = "InvalidIdentifier" /\ detail.episodes = <<>>

\* an id that decodes to two spaces was refused
C26_Witness ==
  /\ xiaoyaReq.outcome = "InvalidIdentifier"
  /\ xiaoyaReq.decoded = [done |-> TRUE, threw |-> FALSE, path |-> <<32, 32>>]
  /\ xiaoyaReq.calls = 0
  /\ detail.entry = "xiaoya"

\* C22: in every detail object the router returns, episodes and episodes_titles have
\* the same length and entry i of both belongs to the same episode of the backend (to
\* the same file for the file-index kinds); for a Movie both have exactly one entry.
C22_CoIndexed ==
  (detail.entry \in {"router", "openlist", "xiaoya"} /\ detail.outcome = "ok") =>
     /\ Len(detail.episodes) = Len(detail.episodes_titles)
     /\ (detail.entry = "router" /\ item.Type = "Movie") => Len(detail.episodes) = 1
     /\ (detail.entry = "router" /\ item.Type = "Series") =>
          \A i \in 1..Len(detail.episodes) :
            /\ detail.episodes[i][2] \in 1..Len(item.episodes)
            /\ detail.episodes_titles[i] = episodeTitle(item.episodes[detail.episodes[i][2]])
     /\ detail.entry = "openlist" =>
          \A i \in 1..Len(detail.episodes) :
            \E e \in Range(openListEpisodes(listing.files, listing.hit, listing.videoInfo)) :
              e.fileName = detail.episodes[i][2] /\ e.title = detail.episodes_titles[i]
     /\ detail.entry = "xiaoya" =>
          \A i \in 1..Len(detail.episodes) :
            detail.episodes_titles[i] = <<"T", detail.episodes[i][2]>>

\* a series whose second episode was sorted before its first
C22_Witness ==
  /\ detail.entry = "router" /\ detail.outcome = "ok" /\ item.Type = "Series"
  /\ Len(detail.episodes) = 2
  /\ detail.episodes[1] = getStreamUrl(2)
  /\ detail.episodes_titles[1] # detail.episodes_titles[2]

\* C30: the directory listing loop ends whatever the backend answers: once the loop has
\* started, it reaches its result or an error.
C30_ListingTerminates ==
  (listing.pc \in {"loop", "awaiting"}) ~> (listing.pc \in {"done", "failed"})

\* C31: a detail view of a folder that finds the folder's entry in the cache of parse
\* results (the first view stored it) runs no filename parsing: it makes no call of
\* parseVideoFileName
C31_CachedViewDoesNotParse ==
  (listing.pc = "done" /\ listing.hit) => listing.parses = 0

\* what a file-index detail shows of its i-th entry: the OVA mark and the episode number
\* of its title, and the file its play URL names
shownOVA(i) == detail.episodes_titles[i][1] = "OVA"

shownEpisode(i) == detail.episodes_titles[i][2]

shownFile(i) == detail.episodes[i][2]

C33_CanonicalLabel ==
  (detail.entry = "router" /\ detail.outcome = "ok" /\ item.Type = "Series") =>
    \A i \in 1..Len(detail.episodes) :
      LET ep == routedEpisodes[i]
      IN  (ep.ParentIndexNumber # Missing /\ ep.IndexNumber # Missing) =>
            detail.episodes_titles[i] =
              label(orZero(ep.ParentIndexNumber), orZero(ep.IndexNumber))

\* C34: a get that finds an expired entry removes it: right after the get the key is
\* not among the keys of the statistics and the size is one less; a get removes no
\* other entry, and a get that finds no expired entry removes nothing
C34_ExpiredReadEvicts ==
  [][ (cacheRet'.op = "get" /\ now' = now) =>
        LET key == cacheRet'.key
            before == getEmbyCacheStats(cache)
            after == getEmbyCacheStats(cache')
        IN  IF key \in DOMAIN cache /\ cache[key].expiresAt <= now
              THEN /\ key \notin after.keys
                   /\ after.size = before.size - 1
                   /\ after.keys = before.keys \ {key}
                   /\ \A k \in after.keys : cache'[k] = cache[k]
                   /\ cacheRet'.value = NoData
              ELSE cache' = cache ]_vars

\* a get has just evicted the expired entry of its key, which no clear had removed,
\* and the cache still holds another entry
C34_Witness ==
  /\ cacheRet.op = "get" /\ cacheRet.value = NoData
  /\ cacheRet.key \in DOMAIN written /\ written[cacheRet.key].live
  /\ cacheRet.key \notin DOMAIN cache
  /\ DOMAIN cache # {}

\* C35: the configurations start with unique keys and at most one default instance;
\* after any sequence of imports the instance list still has at most one instance
\* with isDefault = true
C35_AtMostOneDefault ==
  Cardinality({i \in 1..Len(config.EmbyConfig.Sources) :
                 config.EmbyConfig.Sources[i].isDefault}) <= 1

\* C36: the cache only ever holds successful view-list answers; a request whose handle
\* resolution fails, or whose backend call fails (it was fetching, it is over and
\* nothing was set), writes no entry; a request that hits the cache answers the cached
\* value and neither resolves a handle nor calls the backend
C36_OnlySuccessCached ==
  /\ [](\A k \in DOMAIN cache : cache[k].data \in Data)
  /\ [][ /\ (\/ ret' # ret /\ ret'.op = "views" /\ ret'.outcome # "ok"
             \/ \E r \in 1..MaxRequests :
                  /\ viewsReq[r].pc = "fetching" /\ viewsReq'[r].pc = "idle"
                  /\ written' = written) =>
              \A k \in DOMAIN cache' : k \in DOMAIN cache /\ cache'[k] = cache[k]
         /\ (cacheRet' # cacheRet /\ cacheRet'.op = "get" /\ cacheRet'.value # NoData) =>
              /\ cacheRet'.value = cache[cacheRet'.key].data
              /\ clients' = clients /\ constructed' = constructed
              /\ viewsReq' = viewsReq /\ ret' = ret ]_vars

\* a request for the default instance resolved its handle and is over, and nothing was
\* ever set: its backend call failed; then a request for an instance that is not
\* configured failed to resolve; the cache is empty
C36_Witness ==
  /\ ret.op = "views" /\ ret.outcome # "ok"
  /\ clients # <<>>
  /\ \A r \in 1..MaxRequests : viewsReq[r].pc = "idle"
  /\ written = <<>> /\ cache = <<>>

\* the registry under reconfiguration: between its calls the admin imports files that
\* carry one instance, which replace an instance or add one
ReconfigNext ==
  \/ RegistryNext
  \/ \E data \in {f \in ImportFiles : f.hasSources /\ Len(f.Sources) = 1} : Import(data)

ReconfigSpec == Init /\ [][ReconfigNext]_vars

\* C37: whenever a step puts a handle into the handle cache for a key, the
\* configuration of that moment holds an instance with that key which is enabled, and
\* the handle is built from it: no handle is ever added for a disabled or unknown key
C37_HandlesOfEnabledInstances ==
  [][ \A k \in DOMAIN clients' :
        (k \notin DOMAIN clients \/ clients'[k] # clients[k]) =>
          \E i \in 1..Len(getSources(config)) :
            /\ getSources(config)[i].key = k
            /\ getSources(config)[i].enabled
            /\ clients'[k] = getSources(config)[i] ]_vars

\* the cache holds a handle whose instance an import has since disabled or replaced,
\* next to the handle of an instance that is still enabled
C37_Witness ==
  /\ imports > 0
  /\ \E k \in DOMAIN clients :
        \A i \in 1..Len(getSources(config)) :
          getSources(config)[i].key = k => ~getSources(config)[i].enabled
  /\ \E k \in DOMAIN clients :
        \E i \in 1..Len(getSources(config)) :
          getSources(config)[i].key = k /\ getSources(config)[i].enabled

\* C38: when the fetch of an aborted (superseded) list request settles, the video list,
\* the two loading flags and hasMore stay as they are; a request whose answer is
\* applied is the one created last
C38_SupersededResponseIgnored ==
  [][ \A i \in 1..Len(library.requests) :
        (/\ Len(library'.requests) = Len(library.requests)
         /\ library.requests[i].pc = "pending"
         /\ library'.requests[i].pc = "settled") =>
          IF library.requests[i].aborted
            THEN /\ library'.videos = library.videos
                 /\ library'.loading = library.loading
                 /\ library'.loadingMore = library.loadingMore
                 /\ library'.hasMore = library.hasMore
            ELSE i = Len(library.requests) ]_vars

\* an aborted request has settled while the request that superseded it was still
\* loading, and the list shows the answer of that later request
C38_Witness ==
  \E i, j \in 1..Len(library.requests) :
    /\ i < j
    /\ library.requests[i].aborted /\ library.requests[i].pc = "settled"
    /\ ~library.requests[j].aborted /\ library.requests[j].pc = "settled"
    /\ library.videos = <<<<library.requests[j].deps, library.requests[j].page>>>>

\* C39: the cache keys are isolated: the data a get returns was set by a call with the
\* same arguments as the get, list and views calls taken together
C39_KeysIsolated ==
  (cacheRet.op = "get" /\ cacheRet.value # NoData) =>
    /\ written[cacheRet.key].args = cacheRet.args
    /\ written[cacheRet.key].data = cacheRet.value

====
